---- MODULE Spec2Model ----
(***************************************************************************)
(* ghw snapshot subsystem: the PCI bus walk, the clone-by-device-class     *)
(* filter, the capture pipeline (staging + packing) and the archive        *)
(* expansion, modelled over an explicit file system.                       *)
(*                                                                         *)
(* Paths handled by the program are strings, as in the Go code; the path   *)
(* functions of path/filepath and strings are modelled on the characters.  *)
(* The file system itself is keyed by tuples of names (the real location   *)
(* of a node), and the system calls resolve a path string to such a key,   *)
(* following symbolic links the way the kernel does.                       *)
(***************************************************************************)
EXTENDS Integers, Sequences, FiniteSets, TLC

VARIABLES
    fs,         \* the file system: real location (tuple of names) -> node
    cwd,        \* working directory of the process (a path string)
    pciRoots,   \* pciGlobs: the work queue of bus roots
    fileSpecs,  \* pciGlobs: the FileSpecs produced so far
    scanned,    \* history: the roots handed to scanPCIDeviceRoot, in order
    pciPc,      \* position of pciGlobs: "off", "idle", "walk", "done"
    clonePc,    \* position of a cloneContentByClass call: "off", "idle", "done"
    cloneArgs,  \* its arguments: devClass, subEntries, filterName, filterLink
    cloneOut,   \* the FileSpecs it returned
    pc,         \* position of snapshot.New: "off", "start", "block", "static",
                \* "net", "pci", "gpu", "pack", "done", "failed"
    buildPath,  \* the snapshotter's staging directory
    copying,    \* copyFileGlobs is running
    globs,      \* copyFileGlobs: the FileSpecs not yet expanded
    matches,    \* copyFileGlobs: the matches of the current FileSpec not yet copied
    err,        \* the error snapshot.New returned, "" for none
    archive,    \* the file at the snapshot path: state and tar entries
    resolved,   \* history: the concrete paths handed to copyFile
    skipped,    \* history: the paths whose content copy was skipped
    xpc,        \* position of Expand: "off", "ready", "untar", "done"
    toPath,     \* Expand: the destination directory
    xrest,      \* untar: the entries of the stream not yet read
    xerr,       \* the error Expand returned, "" for none
    opened,     \* history: Expand has opened the archive
    calls,      \* the Expand calls that run side by side, each with its position
    environ,    \* the environment variables read by defaultOpts
    ctx,        \* the context under construction: the pointer to its Options
    heap,       \* the Options structs allocated so far, by address
    mods,       \* history: the context modifiers applied, in order
    paths,      \* the Paths that path.New returned
    pathPc,     \* position of the provider: "off", "build", "done"
    flags,      \* the command line: command, outputFormat, snapshotPath
    snapshotExpandPath, \* the command package's variable of that name
    showPc,     \* position of the command: "off", "start", "run", "done"
    todo,       \* the providers the command has still to invoke
    invoked,    \* history: the providers invoked, each with its Paths
    expanded,   \* history: the directories handed to snapshot.Expand
    showErr     \* the error the command returned, "" for none

envVars == <<fs, cwd>>

walkVars == <<pciRoots, fileSpecs, scanned, pciPc>>

cloneVars == <<clonePc, cloneArgs, cloneOut>>

capVars == <<pc, buildPath, copying, globs, matches, err, archive, resolved, skipped>>

expVars == <<xpc, toPath, xrest, xerr, opened, calls>>

pathVars == <<environ, ctx, heap, mods, paths, pathPc>>

cmdVars == <<flags, snapshotExpandPath, showPc, todo, invoked, expanded, showErr>>

vars == <<envVars, walkVars, cloneVars, capVars, expVars, pathVars, cmdVars>>

\* no file at the snapshot path
NoArchive == [state |-> "absent", entries |-> <<>>]

\* the parts of the program a specification does not run
WalkOff == pciRoots = <<>> /\ fileSpecs = <<>> /\ scanned = <<>> /\ pciPc = "off"

CloneOff == clonePc = "off" /\ cloneArgs = <<>> /\ cloneOut = <<>>

CaptureOff ==
    /\ pc = "off" /\ buildPath = "" /\ copying = FALSE /\ globs = <<>> /\ matches = <<>>
    /\ err = "" /\ archive = NoArchive /\ resolved = {} /\ skipped = {}

ExpandOff ==
    /\ xpc = "off" /\ toPath = "" /\ xrest = <<>> /\ xerr = "" /\ opened = FALSE
    /\ calls = <<>>

PathsOff ==
    /\ environ = <<>> /\ ctx = <<>> /\ heap = <<>> /\ mods = <<>> /\ paths = <<>>
    /\ pathPc = "off"

ShowOff ==
    /\ flags = <<>> /\ snapshotExpandPath = "" /\ showPc = "off" /\ todo = <<>>
    /\ invoked = <<>> /\ expanded = <<>> /\ showErr = ""

\* Body applied to the value of v: v is computed once and bound, as a Go
\* variable assigned from a call
With(v, Body(_)) == CHOOSE r \in {Body(x) : x \in {v}} : TRUE

----------------------------------------------------------------------------
(* Strings *)

Ch(s, i) == SubSeq(s, i, i)

HasPrefix(s, p) == Len(p) <= Len(s) /\ SubSeq(s, 1, Len(p)) = p

HasSuffix(s, p) == Len(p) <= Len(s) /\ SubSeq(s, Len(s) - Len(p) + 1, Len(s)) = p

Contains(s, sub) ==
    \E i \in 1..(Len(s) - Len(sub) + 1) : SubSeq(s, i, i + Len(sub) - 1) = sub

TrimPrefix(s, p) == IF HasPrefix(s, p) THEN SubSeq(s, Len(p) + 1, Len(s)) ELSE s

TrimSuffix(s, p) == IF HasSuffix(s, p) THEN SubSeq(s, 1, Len(s) - Len(p)) ELSE s

\* the characters that occur in the modelled names, in byte order
ByteOrder == "\n*-./0123456789:ABCDEFGHIJKLMNOPQRSTUVWXYZ_abcdefghijklmnopqrstuvwxyz"

Rank(c) == CHOOSE i \in 1..Len(ByteOrder) : Ch(ByteOrder, i) = c

Min(S) == CHOOSE x \in S : \A y \in S : x <= y

Max(S) == CHOOSE x \in S : \A y \in S : y <= x

\* byte-wise order of strings: decided at the first position that differs
StrLess(a, b) ==
    LET n == IF Len(a) < Len(b) THEN Len(a) ELSE Len(b)
        diff == {i \in 1..n : Ch(a, i) # Ch(b, i)}
    IN  IF diff = {} THEN Len(a) < Len(b)
        ELSE Rank(Ch(a, Min(diff))) < Rank(Ch(b, Min(diff)))

\* a finite set of strings as the sequence sorted by byte order
RECURSIVE SortStrings(_)
SortStrings(S) ==
    IF S = {} THEN <<>>
    ELSE LET m == CHOOSE x \in S : \A y \in S \ {x} : StrLess(x, y)
         IN  <<m>> \o SortStrings(S \ {m})

----------------------------------------------------------------------------
(* path/filepath *)

\* the elements of a path between separators, empty elements dropped
SplitPath(p) ==
    LET n == Len(p)
        starts == {i \in 1..n : Ch(p, i) # "/" /\ (i = 1 \/ Ch(p, i - 1) = "/")}
        ends == {j \in 1..n : Ch(p, j) # "/" /\ (j = n \/ Ch(p, j + 1) = "/")}
        Nth(S, k) == CHOOSE x \in S : Cardinality({y \in S : y < x}) = k - 1
    IN  [k \in 1..Cardinality(starts) |-> SubSeq(p, Nth(starts, k), Nth(ends, k))]

IsAbs(p) == HasPrefix(p, "/")

RECURSIVE JoinElems(_)
JoinElems(elems) ==
    IF elems = <<>> THEN ""
    ELSE IF Len(elems) = 1 THEN elems[1]
    ELSE elems[1] \o "/" \o JoinElems(Tail(elems))

\* filepath.Clean: "." elements dropped, "x/.." eliminated, "/.." is "/"
RECURSIVE CleanElems(_, _, _)
CleanElems(elems, out, rooted) ==
    IF elems = <<>> THEN out
    ELSE LET e == Head(elems) IN
         IF e = "." THEN CleanElems(Tail(elems), out, rooted)
         ELSE IF e = ".."
              THEN IF out # <<>> /\ out[Len(out)] # ".."
                   THEN CleanElems(Tail(elems), SubSeq(out, 1, Len(out) - 1), rooted)
                   ELSE IF rooted THEN CleanElems(Tail(elems), out, rooted)
                   ELSE CleanElems(Tail(elems), Append(out, ".."), rooted)
              ELSE CleanElems(Tail(elems), Append(out, e), rooted)

Clean(p) ==
    LET out == CleanElems(SplitPath(p), <<>>, IsAbs(p))
    IN  IF IsAbs(p) THEN "/" \o JoinElems(out)
        ELSE IF out = <<>> THEN "." ELSE JoinElems(out)

\* filepath.Join of two elements
Join(a, b) ==
    IF a = "" /\ b = "" THEN ""
    ELSE IF a = "" THEN Clean(b)
    ELSE IF b = "" THEN Clean(a)
    ELSE Clean(a \o "/" \o b)

\* index of the last separator of p, 0 when there is none
LastSlash(p) == Max({0} \cup {i \in 1..Len(p) : Ch(p, i) = "/"})

\* filepath.Dir
Dir(p) == Clean(SubSeq(p, 1, LastSlash(p)))

----------------------------------------------------------------------------
(* The file system and the system calls *)

\* a node: kind is "dir", "file" or "link"; data is a file's content or a
\* link's target; rd is the error that reading the node gives ("" for none)
DirNode == [kind |-> "dir", data |-> "", rd |-> ""]
FileNode(content) == [kind |-> "file", data |-> content, rd |-> ""]
LinkNode(target) == [kind |-> "link", data |-> target, rd |-> ""]

\* how many symbolic links one path resolution follows before ELOOP
MaxLinks == 4

Prefixes(k) == {SubSeq(k, 1, n) : n \in 0..Len(k)}

\* the file system holding the given nodes and every directory above them
MkFs(nodes) ==
    LET keys == UNION {Prefixes(k) : k \in DOMAIN nodes}
    IN  [k \in keys |-> IF k \in DOMAIN nodes THEN nodes[k] ELSE DirNode]

AbsElems(p) == IF IsAbs(p) THEN SplitPath(p) ELSE SplitPath(cwd) \o SplitPath(p)

\* path resolution from the directory cur: err is "" and key the node's
\* location; with err "ENOENT" and creatable, key is where the last element
\* would be created
RECURSIVE Resolve(_, _, _, _, _)
Resolve(f, cur, elems, followLast, fuel) ==
    IF elems = <<>> THEN [err |-> "", key |-> cur, creatable |-> FALSE]
    ELSE LET e == Head(elems)
             rest == Tail(elems)
             nxt == Append(cur, e)
         IN  IF e = "." THEN Resolve(f, cur, rest, followLast, fuel)
             ELSE IF e = ".."
             THEN Resolve(f, IF cur = <<>> THEN cur ELSE SubSeq(cur, 1, Len(cur) - 1),
                          rest, followLast, fuel)
             ELSE IF nxt \notin DOMAIN f
             THEN [err |-> "ENOENT", key |-> nxt, creatable |-> rest = <<>>]
             ELSE IF f[nxt].kind = "dir"
             THEN Resolve(f, nxt, rest, followLast, fuel)
             ELSE IF f[nxt].kind = "file"
             THEN IF rest = <<>> THEN [err |-> "", key |-> nxt, creatable |-> FALSE]
                  ELSE [err |-> "ENOTDIR", key |-> nxt, creatable |-> FALSE]
             ELSE IF rest = <<>> /\ ~followLast
             THEN [err |-> "", key |-> nxt, creatable |-> FALSE]
             ELSE IF fuel = 0 THEN [err |-> "ELOOP", key |-> nxt, creatable |-> FALSE]
             ELSE Resolve(f, IF IsAbs(f[nxt].data) THEN <<>> ELSE cur,
                          SplitPath(f[nxt].data) \o rest, followLast, fuel - 1)

\* os.Lstat and os.Stat
Lstat(f, p) == Resolve(f, <<>>, AbsElems(p), FALSE, MaxLinks)
Stat(f, p) == Resolve(f, <<>>, AbsElems(p), TRUE, MaxLinks)

ChildNames(f, key) ==
    {k[Len(k)] : k \in {q \in DOMAIN f : Len(q) = Len(key) + 1 /\ SubSeq(q, 1, Len(key)) = key}}

\* the orders in which a file system may hand out the entries of a
\* directory: by name ("", as tmpfs does), by name backwards, or starting
\* from the second name
Orders == {"", "desc", "rot"}

\* the order of a file system is kept in the data of its root node
Enumeration(f) == f[<<>>].data

\* the same tree on a file system that enumerates in the order o
Reorder(f, o) == [f EXCEPT ![<<>>].data = o]

\* the entries of the directory at key as the file system hands them out
RawList(f, key) ==
    With(SortStrings(ChildNames(f, key)), LAMBDA s :
        CASE Enumeration(f) = "desc" -> [i \in 1..Len(s) |-> s[Len(s) + 1 - i]]
          [] Enumeration(f) = "rot" /\ s # <<>> -> Tail(s) \o <<Head(s)>>
          [] OTHER -> s)

\* os.ReadDir without the sort: the entries in the order of the file system
ReadDir_Unsorted(f, p) ==
    With(Stat(f, p), LAMBDA st :
        IF st.err # "" THEN [err |-> st.err, key |-> <<>>, names |-> <<>>]
        ELSE IF f[st.key].kind # "dir" THEN [err |-> "ENOTDIR", key |-> <<>>, names |-> <<>>]
        ELSE IF f[st.key].rd # "" THEN [err |-> f[st.key].rd, key |-> <<>>, names |-> <<>>]
        ELSE [err |-> "", key |-> st.key, names |-> RawList(f, st.key)])

\* os.ReadDir: the entries of the directory are read in the order of the
\* file system and sorted by name
ReadDir(f, p) ==
    With(Stat(f, p), LAMBDA st :
        IF st.err # "" THEN [err |-> st.err, key |-> <<>>, names |-> <<>>]
        ELSE IF f[st.key].kind # "dir" THEN [err |-> "ENOTDIR", key |-> <<>>, names |-> <<>>]
        ELSE IF f[st.key].rd # "" THEN [err |-> f[st.key].rd, key |-> <<>>, names |-> <<>>]
        ELSE With(RawList(f, st.key), LAMBDA raw :
                 [err |-> "", key |-> st.key,
                  names |-> SortStrings({raw[i] : i \in DOMAIN raw})]))

\* os.Readlink
Readlink(f, p) ==
    With(Lstat(f, p), LAMBDA st :
        IF st.err # "" THEN [err |-> st.err, target |-> ""]
        ELSE IF f[st.key].kind # "link" THEN [err |-> "EINVAL", target |-> ""]
        ELSE IF f[st.key].rd # "" THEN [err |-> f[st.key].rd, target |-> ""]
        ELSE [err |-> "", target |-> f[st.key].data])

----------------------------------------------------------------------------
(* PCI addresses *)

HexDigits == "0123456789abcdefABCDEF"

IsHexDigit(c) == Len(c) = 1 /\ Contains(HexDigits, c)

\* one step of the address grammar: n hexadecimal digits taken from the front
RECURSIVE TakeHex(_, _)
TakeHex(st, n) ==
    IF ~st.ok \/ n = 0 THEN st
    ELSE IF st.rest # "" /\ IsHexDigit(Ch(st.rest, 1))
         THEN TakeHex([ok |-> TRUE, rest |-> Tail(st.rest), got |-> st.got \o Ch(st.rest, 1)], n - 1)
         ELSE [ok |-> FALSE, rest |-> st.rest, got |-> st.got]

\* the literal separator c taken from the front
TakeSep(st, c) ==
    IF st.ok /\ st.rest # "" /\ Ch(st.rest, 1) = c
    THEN [ok |-> TRUE, rest |-> Tail(st.rest), got |-> ""]
    ELSE [ok |-> FALSE, rest |-> st.rest, got |-> ""]

\* pciaddr.FromString: the address of a name of the shape
\* domain:bus:device.function (4, 2, 2 and 1 hexadecimal digits), and no
\* address (ok = FALSE, Go's nil) for every other string
FromString(name) ==
    LET start(st) == [ok |-> st.ok, rest |-> st.rest, got |-> ""]
        dom == TakeHex([ok |-> TRUE, rest |-> name, got |-> ""], 4)
        bus == TakeHex(start(TakeSep(dom, ":")), 2)
        dev == TakeHex(start(TakeSep(bus, ":")), 2)
        fun == TakeHex(start(TakeSep(dev, ".")), 1)
    IN  IF fun.ok /\ fun.rest = ""
        THEN [ok |-> TRUE, domain |-> dom.got, bus |-> bus.got,
              device |-> dev.got, function |-> fun.got]
        ELSE [ok |-> FALSE, domain |-> "", bus |-> "", device |-> "", function |-> ""]

----------------------------------------------------------------------------
(* The PCI bus walk *)

sysBusPCIDir == "/sys/bus/pci/devices"

perDevEntries ==
    <<"class", "device", "driver", "irq", "local_cpulist", "modalias",
      "numa_node", "revision", "vendor">>

\* findPCIEntryFromPath with the link target dropped from the result
findPCIEntryFromPath_DropsTarget(f, root, entryName) ==
    LET entryPath == Join(root, entryName)
        fi == Lstat(f, entryPath)
    IN  IF fi.err # "" THEN [err |-> fi.err, path |-> ""]
        ELSE IF f[fi.key].kind # "link" THEN [err |-> "", path |-> entryPath]
        ELSE [err |-> "", path |-> Clean(root)]

\* the real device directory behind an entry of a bus directory
findPCIEntryFromPath(f, root, entryName) ==
    LET entryPath == Join(root, entryName)
        fi == Lstat(f, entryPath)
    IN  IF fi.err # "" THEN [err |-> fi.err, path |-> ""]
        ELSE IF f[fi.key].kind # "link" THEN [err |-> "", path |-> entryPath]
        ELSE LET l == Readlink(f, entryPath)
             IN  IF l.err # "" THEN [err |-> l.err, path |-> ""]
                 ELSE [err |-> "", path |-> Clean(Join(root, l.target))]

\* isPCIBridge taking every address-named entry for a secondary bus,
\* directory or not
isPCIBridge_AnyKind(f, entryPath) ==
    LET d == ReadDir(f, entryPath)
    IN  /\ d.err = ""
        /\ \E i \in 1..Len(d.names) : FromString(d.names[i]).ok

\* a device is taken for a bridge when its directory holds a subdirectory
\* named like a PCI address
isPCIBridge(f, entryPath) ==
    LET d == ReadDir(f, entryPath)
    IN  /\ d.err = ""
        /\ \E i \in 1..Len(d.names) :
              /\ f[Append(d.key, d.names[i])].kind = "dir"
              /\ FromString(d.names[i]).ok

\* the attribute paths without the last attribute of the list
AttrSpecs_OmitsLast(pciEntry, attrs) ==
    [i \in 1..(Len(attrs) - 1) |-> Join(pciEntry, attrs[i])]

\* entryPath followed by the path of every per-device attribute
RECURSIVE AttrSpecs(_, _)
AttrSpecs(pciEntry, attrs) ==
    IF attrs = <<>> THEN <<>>
    ELSE <<Join(pciEntry, Head(attrs))>> \o AttrSpecs(pciEntry, Tail(attrs))

\* the loop body of scanPCIDeviceRoot accepting a name as soon as it starts
\* like an address (a prefix match in place of the whole-name match)
RECURSIVE ScanEntries_PrefixMatch(_, _, _, _)
ScanEntries_PrefixMatch(f, root, names, acc) ==
    IF names = <<>> THEN acc
    ELSE LET entryName == Head(names)
             entryPath == Join(root, entryName)
             pciEntry == findPCIEntryFromPath(f, root, entryName)
             head == IF Len(entryName) > 12 THEN SubSeq(entryName, 1, 12) ELSE entryName
         IN  IF ~FromString(head).ok \/ pciEntry.err # ""
             THEN ScanEntries_PrefixMatch(f, root, Tail(names), acc)
             ELSE ScanEntries_PrefixMatch(f, root, Tail(names),
                    [fileSpecs |-> acc.fileSpecs \o <<entryPath>>
                                       \o AttrSpecs(pciEntry.path, perDevEntries),
                     pciRoots |-> IF isPCIBridge(f, entryPath)
                                  THEN Append(acc.pciRoots, pciEntry.path)
                                  ELSE acc.pciRoots])

\* the loop of scanPCIDeviceRoot giving up the directory at the first entry
\* that does not resolve
RECURSIVE ScanEntries_StopsAtFailure(_, _, _, _)
ScanEntries_StopsAtFailure(f, root, names, acc) ==
    IF names = <<>> THEN acc
    ELSE LET entryName == Head(names)
             entryPath == Join(root, entryName)
             pciEntry == findPCIEntryFromPath(f, root, entryName)
         IN  IF ~FromString(entryName).ok
             THEN ScanEntries_StopsAtFailure(f, root, Tail(names), acc)
             ELSE IF pciEntry.err # "" THEN acc
             ELSE ScanEntries_StopsAtFailure(f, root, Tail(names),
                    [fileSpecs |-> acc.fileSpecs \o <<entryPath>>
                                       \o AttrSpecs(pciEntry.path, perDevEntries),
                     pciRoots |-> IF isPCIBridge(f, entryPath)
                                  THEN Append(acc.pciRoots, pciEntry.path)
                                  ELSE acc.pciRoots])

\* the loop body of scanPCIDeviceRoot over the remaining entries
RECURSIVE ScanEntries(_, _, _, _)
ScanEntries(f, root, names, acc) ==
    IF names = <<>> THEN acc
    ELSE LET entryName == Head(names)
             entryPath == Join(root, entryName)
             pciEntry == findPCIEntryFromPath(f, root, entryName)
         IN  IF ~FromString(entryName).ok \/ pciEntry.err # ""
             THEN ScanEntries(f, root, Tail(names), acc)
             ELSE ScanEntries(f, root, Tail(names),
                    [fileSpecs |-> acc.fileSpecs \o <<entryPath>>
                                       \o AttrSpecs(pciEntry.path, perDevEntries),
                     pciRoots |-> IF isPCIBridge(f, entryPath)
                                  THEN Append(acc.pciRoots, pciEntry.path)
                                  ELSE acc.pciRoots])

scanPCIDeviceRoot(f, root) ==
    LET d == ReadDir(f, root)
    IN  IF d.err # "" THEN [fileSpecs |-> <<>>, pciRoots |-> <<>>]
        ELSE ScanEntries(f, root, d.names, [fileSpecs |-> <<>>, pciRoots |-> <<>>])

\* most calls of scanPCIDeviceRoot one walk of the model makes
MaxScans == 12

\* pciGlobs, lines 28-33: the first FileSpec and the queue's seed
PciStart ==
    /\ pciPc = "idle"
    /\ fileSpecs' = <<"/sys/bus/pci/drivers/*">>
    /\ pciRoots' = <<sysBusPCIDir>>
    /\ pciPc' = "walk"
    /\ UNCHANGED <<envVars, scanned, cloneVars, capVars, expVars, pathVars, cmdVars>>

\* pciGlobs, lines 38-42: one bus root dequeued and scanned
PciScan ==
    /\ pciPc = "walk"
    /\ pciRoots # <<>>
    /\ Len(scanned) < MaxScans
    /\ LET pciRoot == pciRoots[1]
           r == scanPCIDeviceRoot(fs, pciRoot)
       IN  /\ pciRoots' = Tail(pciRoots) \o r.pciRoots
           /\ fileSpecs' = fileSpecs \o r.fileSpecs
           /\ scanned' = Append(scanned, pciRoot)
    /\ UNCHANGED <<envVars, pciPc, cloneVars, capVars, expVars, pathVars, cmdVars>>

\* pciGlobs, lines 35-36 and 44: the queue is empty, the walk returns
PciReturn ==
    /\ pciPc = "walk"
    /\ pciRoots = <<>>
    /\ pciPc' = "done"
    /\ UNCHANGED <<envVars, pciRoots, fileSpecs, scanned, cloneVars, capVars, expVars, pathVars, cmdVars>>

----------------------------------------------------------------------------
(* The sysfs PCI trees the walk is run on *)

\* most PCI devices in a modelled tree
MaxDevices == 3

\* the address of device i: bus i, device 0, function 0
PciAddr(i) == "0000:0" \o Ch("0123456789", i + 1) \o ":00.0"

PciHostKey == <<"sys", "devices", "pci0000:00">>

\* a tree: par[i] is the bridge device i sits behind, 0 for the host bridge
ParentMaps(n) == {par \in [1..n -> 0..n] : \A i \in 1..n : par[i] < i}

\* the real directory of device i: nested in the directory of its bridge
RECURSIVE DevKey(_, _)
DevKey(par, i) ==
    IF par[i] = 0 THEN Append(PciHostKey, PciAddr(i))
    ELSE Append(DevKey(par, par[i]), PciAddr(i))

DevPath(par, i) == "/" \o JoinElems(DevKey(par, i))

\* sysfs: /sys/bus/pci/devices holds one symbolic link per device of the
\* tree, at every depth, pointing at the device's real directory
FlatKey(name) == <<"sys", "bus", "pci", "devices", name>>

FlatTarget(par, i) == "../../../" \o JoinElems(Tail(DevKey(par, i)))

DevNodes(par, i, attrs) ==
    (FlatKey(PciAddr(i)) :> LinkNode(FlatTarget(par, i)))
    @@ (DevKey(par, i) :> DirNode)
    @@ [k \in {Append(DevKey(par, i), a) : a \in attrs} |-> FileNode("0x0" \o Ch("0123456789", i + 1) \o "\n")]

RECURSIVE AllDevNodes(_, _, _)
AllDevNodes(par, i, attrs) ==
    IF i = 0
    THEN (<<"sys", "bus", "pci", "devices">> :> DirNode) @@ (PciHostKey :> DirNode)
    ELSE DevNodes(par, i, attrs) @@ AllDevNodes(par, i - 1, attrs)

PciFs(par, attrs) == MkFs(AllDevNodes(par, Len(par), attrs))

\* names one edit away from a PCI address: a character dropped, inserted or
\* replaced
EditChars == {"0", "f", "F", "g", "G", ":", ".", "-"}

Edits(s) ==
    {SubSeq(s, 1, i - 1) \o SubSeq(s, i + 1, Len(s)) : i \in 1..Len(s)}
    \cup {SubSeq(s, 1, i) \o c \o SubSeq(s, i + 1, Len(s)) : i \in 0..Len(s), c \in EditChars}
    \cup {SubSeq(s, 1, i - 1) \o c \o SubSeq(s, i + 1, Len(s)) : i \in 1..Len(s), c \in EditChars}

OddNames == Edits("00a0:1f:02.3") \cup {"00a0:1f:02.3", "drivers_probe", "0", "00a0:1f:02", "1f:02.3"}

\* a one-device tree with one more entry of an arbitrary name, in the flat
\* device directory or inside the device's own directory
OddFs(name, inDevice, node) ==
    LET par == <<0>>
        at == IF inDevice THEN Append(DevKey(par, 1), name) ELSE FlatKey(name)
    IN  MkFs((at :> node) @@ AllDevNodes(par, 1, {"class"}))

OddNodes(par) == {DirNode, FileNode("x\n"), LinkNode(FlatTarget(par, 1))}

\* trees on which a system call of the walk fails: a system without a PCI
\* bus, a flat device directory that cannot be listed, and a tree where the
\* link of device 1 in the flat directory cannot be read
NoBusFs == MkFs(<<"sys", "bus">> :> DirNode)

LockedBusFs(par) ==
    [PciFs(par, {"class"}) EXCEPT ![<<"sys", "bus", "pci", "devices">>].rd = "EACCES"]

BadLinkFs(par) == [PciFs(par, {"class"}) EXCEPT ![FlatKey(PciAddr(1))].rd = "EIO"]

FaultyFs ==
    {NoBusFs}
    \cup {LockedBusFs(par) : par \in ParentMaps(1)}
    \cup UNION {{BadLinkFs(par) : par \in ParentMaps(n)} : n \in 1..MaxDevices}

InitWalk ==
    /\ cwd = "/"
    /\ \/ \E n \in 0..MaxDevices : \E par \in ParentMaps(n) : fs = PciFs(par, {"class"})
       \/ \E name \in OddNames : \E inDevice \in BOOLEAN : \E node \in OddNodes(<<0>>) :
             fs = OddFs(name, inDevice, node)
       \/ fs \in FaultyFs
    /\ pciRoots = <<>>
    /\ fileSpecs = <<>>
    /\ scanned = <<>>
    /\ pciPc = "idle"
    /\ CloneOff /\ CaptureOff /\ ExpandOff /\ PathsOff /\ ShowOff

NextWalk == PciStart \/ PciScan \/ PciReturn

SpecWalk == InitWalk /\ [][NextWalk]_vars

\* a PciScan step as the history shows it: under [][NextWalk]_vars the steps
\* that extend scanned are exactly the PciScan steps, and one is possible
\* exactly when PciScan is enabled
PciScanStep ==
    /\ pciPc = "walk"
    /\ pciRoots # <<>>
    /\ Len(scanned) < MaxScans
    /\ scanned' = Append(scanned, pciRoots[1])

\* pciGlobs is one sequential loop: it takes its next step whenever it has one
LiveWalk ==
    SpecWalk /\ WF_vars(PciStart) /\ WF_scanned(PciScanStep) /\ WF_vars(PciReturn)

----------------------------------------------------------------------------
(* Properties of the bus walk *)

Range(seq) == {seq[i] : i \in DOMAIN seq}

Count(seq, x) == Cardinality({i \in DOMAIN seq : seq[i] = x})

\* the shape dddd:dd:dd.d, position by position
AddressShape(s) ==
    /\ Len(s) = 12
    /\ \A i \in {1, 2, 3, 4, 6, 7, 9, 10, 12} : IsHexDigit(Ch(s, i))
    /\ Ch(s, 5) = ":" /\ Ch(s, 8) = ":" /\ Ch(s, 11) = "."

\* the device directories of the tree: the address-named directories below
\* the host bridge
DeviceDirs == {k \in DOMAIN fs : /\ Len(k) > Len(PciHostKey)
                                 /\ SubSeq(k, 1, Len(PciHostKey)) = PciHostKey
                                 /\ fs[k].kind = "dir"
                                 /\ \A j \in (Len(PciHostKey) + 1)..Len(k) : AddressShape(k[j])}

\* C4: on every finite PCI tree pciGlobs eventually empties its queue of bus
\* roots and returns.
WalkTerminates == <>(pciPc = "done")

\* a walk that followed nested bridges has returned
WalkTerminatesWitness == pciPc = "done" /\ Len(scanned) >= 4 /\ pciRoots = <<>>

\* C5: no directory is handed to scanPCIDeviceRoot twice during one walk.
NoRootScannedTwice ==
    \A i, j \in DOMAIN scanned : i # j => scanned[i] # scanned[j]

\* C6: when the walk has returned, every device of the tree is covered and
\* the FileSpecs of its attributes occur exactly once in the result.
EachDeviceCoveredOnce ==
    pciPc = "done" =>
        \A k \in DeviceDirs : Count(fileSpecs, Join("/" \o JoinElems(k), "class")) = 1

\* the FileSpecs emitted for device entries themselves: after the first
\* FileSpec every device contributes its entry path and then its attributes
EmittedEntries ==
    {fileSpecs[i] : i \in {j \in DOMAIN fileSpecs : j % (1 + Len(perDevEntries)) = 2}}

\* C7: a name parses as a PCI address exactly when the whole name has the
\* shape dddd:dd:dd.d, every other name gives no address, and in every
\* directory the walk has scanned the entries emitted as devices are exactly
\* those with such a name.
AddressParsingExact ==
    /\ \A k \in DOMAIN fs : \A j \in 1..Len(k) : FromString(k[j]).ok <=> AddressShape(k[j])
    /\ \A i \in DOMAIN scanned :
          LET d == ReadDir(fs, scanned[i])
          IN  \A j \in DOMAIN d.names :
                 (Join(scanned[i], d.names[j]) \in EmittedEntries)
                    <=> (/\ AddressShape(d.names[j])
                         /\ findPCIEntryFromPath(fs, scanned[i], d.names[j]).err = "")

\* the flat directory held an address, which was emitted, next to the same
\* address with one more digit, which was not
AddressParsingWitness ==
    /\ pciPc = "done"
    /\ FlatKey("00a0:1f:02.30") \in DOMAIN fs
    /\ Join(sysBusPCIDir, "00a0:1f:02.30") \notin EmittedEntries
    /\ Join(sysBusPCIDir, PciAddr(1)) \in EmittedEntries

----------------------------------------------------------------------------
(* cloneContentByClass *)

\* the filter functions the program passes: filterNone, the link filter of
\* netGlobs and the name filter of gpuGlobs
ApplyFilter(id, s) ==
    CASE id = "filterNone" -> TRUE
      [] id = "netFilterLink" -> ~Contains(s, "devices/virtual/net")
      [] id = "gpuFilterName" -> HasPrefix(s, "card") /\ ~Contains(s, "-")

\* the loop body of cloneContentByClass with the two filters composed by OR
RECURSIVE CloneEntries_EitherFilter(_, _, _, _, _, _)
CloneEntries_EitherFilter(f, sysClass, names, subEntries, filterName, filterLink) ==
    IF names = <<>> THEN <<>>
    ELSE LET devName == Head(names)
             devPath == Join(sysClass, devName)
             dest == Readlink(f, devPath)
             rest == CloneEntries_EitherFilter(f, sysClass, Tail(names), subEntries,
                                               filterName, filterLink)
         IN  IF dest.err # "" THEN rest
             ELSE IF ~ApplyFilter(filterName, devName) /\ ~ApplyFilter(filterLink, dest.target)
             THEN rest
             ELSE <<devPath>>
                  \o AttrSpecs(Clean(Join(sysClass, dest.target)), subEntries)
                  \o rest

\* the loop body of cloneContentByClass over the remaining entries
RECURSIVE CloneEntries(_, _, _, _, _, _)
CloneEntries(f, sysClass, names, subEntries, filterName, filterLink) ==
    IF names = <<>> THEN <<>>
    ELSE LET devName == Head(names)
             devPath == Join(sysClass, devName)
             dest == Readlink(f, devPath)
             rest == CloneEntries(f, sysClass, Tail(names), subEntries,
                                  filterName, filterLink)
         IN  IF ~ApplyFilter(filterName, devName) THEN rest
             ELSE IF dest.err # "" THEN rest
             ELSE IF ~ApplyFilter(filterLink, dest.target) THEN rest
             ELSE <<devPath>>
                  \o AttrSpecs(Clean(Join(sysClass, dest.target)), subEntries)
                  \o rest

\* the class directory as the code names it: a path without a leading
\* separator
SysClass(devClass) == Join(Join("sys", "class"), devClass)

cloneContentByClass(f, devClass, subEntries, filterName, filterLink) ==
    LET sysClass == SysClass(devClass)
        entries == ReadDir(f, sysClass)
    IN  IF entries.err # "" THEN <<>>
        ELSE CloneEntries(f, sysClass, entries.names, subEntries, filterName, filterLink)

\* netGlobs cloning the hardware address as well
netGlobs_WithAddress(f) ==
    cloneContentByClass(f, "net", <<"addr_assign_type", "address">>, "filterNone", "netFilterLink")

netGlobs(f) == cloneContentByClass(f, "net", <<"addr_assign_type">>, "filterNone", "netFilterLink")

gpuGlobs(f) == cloneContentByClass(f, "drm", <<"device">>, "gpuFilterName", "filterNone")

\* one call of cloneContentByClass, whole
CloneCall ==
    /\ clonePc = "idle"
    /\ cloneOut' = cloneContentByClass(fs, cloneArgs.devClass, cloneArgs.subEntries,
                                       cloneArgs.filterName, cloneArgs.filterLink)
    /\ clonePc' = "done"
    /\ UNCHANGED <<envVars, cloneArgs, walkVars, capVars, expVars, pathVars, cmdVars>>

----------------------------------------------------------------------------
(* The class directories cloneContentByClass is run on *)

ClassNames == {"eth0", "card0", "card0-DP-1"}

\* what an entry of a class directory can be: a link to a device behind the
\* PCI bus, a link to a virtual device, or a plain attribute file of the
\* class itself (as bonding_masters in /sys/class/net)
EntryKinds == {"none", "phys", "virt", "file"}

EntryNode(devClass, name, kind) ==
    CASE kind = "phys" ->
           LinkNode("../../devices/pci0000:00/0000:01:00.0/" \o devClass \o "/" \o name)
      [] kind = "virt" -> LinkNode("../../devices/virtual/net/" \o name)
      [] kind = "file" -> FileNode("x\n")

ClassNodes(devClass, kinds) ==
    [k \in {<<"sys", "class", devClass, n>> : n \in {m \in ClassNames : kinds[m] # "none"}}
        |-> EntryNode(devClass, k[4], kinds[k[4]])]

ClassFs(devClass, kinds) ==
    MkFs(ClassNodes(devClass, kinds)
         @@ (<<"sys", "class", devClass>> :> DirNode) @@ (<<"root">> :> DirNode))

InitClone ==
    /\ cwd \in {"/", "/root"}
    /\ \E devClass \in {"net", "drm"} : \E kinds \in [ClassNames -> EntryKinds] :
          /\ fs = ClassFs(devClass, kinds)
          /\ \E fn \in {"filterNone", "gpuFilterName"} : \E fl \in {"filterNone", "netFilterLink"} :
                cloneArgs = [devClass |-> devClass, subEntries |-> <<"device">>,
                             filterName |-> fn, filterLink |-> fl]
    /\ clonePc = "idle"
    /\ cloneOut = <<>>
    /\ WalkOff /\ CaptureOff /\ ExpandOff /\ PathsOff /\ ShowOff

NextClone == CloneCall

SpecClone == InitClone /\ [][NextClone]_vars

----------------------------------------------------------------------------
(* Properties of cloneContentByClass *)

\* the entries of the class directory the call reads
ClassEntries ==
    LET d == ReadDir(fs, SysClass(cloneArgs.devClass))
    IN  IF d.err # "" THEN {} ELSE Range(d.names)

EntryLink(n) == Readlink(fs, Join(SysClass(cloneArgs.devClass), n))

\* the entries whose class-entry FileSpec the call returned
Accepted == {n \in ClassEntries : Join(SysClass(cloneArgs.devClass), n) \in Range(cloneOut)}

NetInvocation == cloneArgs.filterName = "filterNone" /\ cloneArgs.filterLink = "netFilterLink"

HasMarker(n) == EntryLink(n).err = "" /\ Contains(EntryLink(n).target, "devices/virtual/net")

\* C8 as stated: an entry is accepted exactly when the name filter accepts
\* its name and the link filter accepts its link target, and the network
\* invocation accepts the full entry set minus the entries whose link target
\* contains the marker.
FilterComposition ==
    clonePc = "done" =>
        /\ \A n \in ClassEntries :
              n \in Accepted <=> /\ ApplyFilter(cloneArgs.filterName, n)
                                 /\ EntryLink(n).err = ""
                                 /\ ApplyFilter(cloneArgs.filterLink, EntryLink(n).target)
        /\ NetInvocation => Accepted = ClassEntries \ {n \in ClassEntries : HasMarker(n)}

\* C8 amended: the same, the accepted set of the network invocation being
\* the entries whose link can be read minus those whose link target contains
\* the marker; an entry that is not a symbolic link is never accepted.
FilterCompositionOfLinks ==
    clonePc = "done" =>
        /\ \A n \in ClassEntries :
              n \in Accepted <=> /\ ApplyFilter(cloneArgs.filterName, n)
                                 /\ EntryLink(n).err = ""
                                 /\ ApplyFilter(cloneArgs.filterLink, EntryLink(n).target)
        /\ NetInvocation =>
              Accepted = {n \in ClassEntries : EntryLink(n).err = ""}
                         \ {n \in ClassEntries : HasMarker(n)}

\* the network invocation has run on a directory holding an accepted link, a
\* link into the virtual subtree and an entry that is no link
FilterCompositionWitness ==
    /\ clonePc = "done"
    /\ NetInvocation
    /\ Accepted # {}
    /\ \E n \in ClassEntries : HasMarker(n)
    /\ \E n \in ClassEntries : EntryLink(n).err # ""

----------------------------------------------------------------------------
(* System calls that change the file system; each gives the new file      *)
(* system and the error, "" for none                                       *)

\* os.Mkdir: the last element is not followed when it is a link
Mkdir(f, p) ==
    With(Lstat(f, p), LAMBDA ls :
        IF ls.err = "" THEN [fs |-> f, err |-> "EEXIST"]
        ELSE IF ls.err = "ENOENT" /\ ls.creatable
        THEN [fs |-> (ls.key :> DirNode) @@ f, err |-> ""]
        ELSE [fs |-> f, err |-> ls.err])

\* the end of os.MkdirAll: a failed Mkdir is no error when the directory is
\* there all the same
MkdirLast(f, p) ==
    With(Mkdir(f, p), LAMBDA mk :
        IF mk.err = "" THEN mk
        ELSE With(Lstat(f, p), LAMBDA ls :
                 IF ls.err = "" /\ f[ls.key].kind = "dir" THEN [fs |-> f, err |-> ""]
                 ELSE mk))

\* os.MkdirAll: nothing to do on a directory, ENOTDIR on another node; else
\* the parent first, then the directory itself
RECURSIVE MkdirAll(_, _)
MkdirAll(f, p) ==
    With(Stat(f, p), LAMBDA st :
        IF st.err = ""
        THEN [fs |-> f, err |-> IF f[st.key].kind = "dir" THEN "" ELSE "ENOTDIR"]
        ELSE With(Dir(p), LAMBDA parent :
                 IF parent = p THEN MkdirLast(f, p)
                 ELSE With(MkdirAll(f, parent), LAMBDA up :
                          IF up.err # "" THEN up ELSE MkdirLast(up.fs, p))))

\* os.Symlink
Symlink(f, target, p) ==
    With(Lstat(f, p), LAMBDA ls :
        IF ls.err = "" THEN [fs |-> f, err |-> "EEXIST"]
        ELSE IF ls.err = "ENOENT" /\ ls.creatable
        THEN [fs |-> (ls.key :> LinkNode(target)) @@ f, err |-> ""]
        ELSE [fs |-> f, err |-> ls.err])

\* os.OpenFile for writing with O_CREATE, with or without O_TRUNC: key is
\* the file that was opened
OpenFile(f, p, trunc) ==
    With(Stat(f, p), LAMBDA st :
        IF st.err = ""
        THEN IF f[st.key].kind = "dir" THEN [fs |-> f, err |-> "EISDIR", key |-> <<>>]
             ELSE [fs |-> IF trunc THEN [f EXCEPT ![st.key].data = ""] ELSE f,
                   err |-> "", key |-> st.key]
        ELSE IF st.err = "ENOENT" /\ st.creatable
        THEN [fs |-> (st.key :> FileNode("")) @@ f, err |-> "", key |-> st.key]
        ELSE [fs |-> f, err |-> st.err, key |-> <<>>])

\* os.Create
Create(f, p) == OpenFile(f, p, TRUE)

\* a write of buf at offset 0 of an open file: the bytes beyond buf stay
WriteFile(f, key, buf) ==
    [f EXCEPT ![key].data =
        IF Len(@) > Len(buf) THEN buf \o SubSeq(@, Len(buf) + 1, Len(@)) ELSE buf]

\* os.ReadFile
ReadFile(f, p) ==
    With(Stat(f, p), LAMBDA st :
        IF st.err # "" THEN [err |-> st.err, buf |-> ""]
        ELSE IF f[st.key].kind = "dir" THEN [err |-> "EISDIR", buf |-> ""]
        ELSE IF f[st.key].rd # "" THEN [err |-> f[st.key].rd, buf |-> ""]
        ELSE [err |-> "", buf |-> f[st.key].data])

----------------------------------------------------------------------------
(* filepath.Glob *)

hasMeta(p) == \E i \in 1..Len(p) : Ch(p, i) \in {"*", "?", "[", "\\"}

\* filepath.Match for patterns of literal characters and "*": a star stands
\* for any run of characters other than the separator
RECURSIVE Match(_, _)
Match(pattern, name) ==
    With({i \in 1..Len(pattern) : Ch(pattern, i) = "*"}, LAMBDA stars :
        IF stars = {} THEN pattern = name
        ELSE With(Min(stars), LAMBDA i :
                 /\ Len(name) >= i - 1
                 /\ SubSeq(name, 1, i - 1) = SubSeq(pattern, 1, i - 1)
                 /\ \E k \in (i - 1)..Len(name) :
                       /\ "/" \notin {Ch(name, j) : j \in i..k}
                       /\ Match(SubSeq(pattern, i + 1, Len(pattern)),
                                SubSeq(name, k + 1, Len(name)))))

cleanGlobPath(dir) ==
    IF dir = "" THEN "."
    ELSE IF dir = "/" THEN "/"
    ELSE SubSeq(dir, 1, Len(dir) - 1)

\* glob: the entries of dir matching the pattern, in name order, after m; an
\* unreadable dir adds nothing
GlobDir(f, dir, pattern, m) ==
    With(ReadDir(f, dir), LAMBDA d :
        IF d.err # "" THEN m
        ELSE With(SelectSeq(d.names, LAMBDA n : Match(pattern, n)), LAMBDA sel :
                 m \o [j \in 1..Len(sel) |-> Join(dir, sel[j])]))

RECURSIVE GlobAll(_, _, _, _)
GlobAll(f, dirs, pattern, m) ==
    IF dirs = <<>> THEN m
    ELSE GlobAll(f, Tail(dirs), pattern, GlobDir(f, Head(dirs), pattern, m))

\* filepath.Glob: a pattern without a star matches itself when it exists
RECURSIVE Glob(_, _)
Glob(f, pattern) ==
    IF ~hasMeta(pattern)
    THEN IF Lstat(f, pattern).err = "" THEN <<pattern>> ELSE <<>>
    ELSE With(LastSlash(pattern), LAMBDA i :
         With(cleanGlobPath(SubSeq(pattern, 1, i)), LAMBDA dir :
         With(SubSeq(pattern, i + 1, Len(pattern)), LAMBDA file :
             IF ~hasMeta(dir) THEN GlobDir(f, dir, file, <<>>)
             ELSE GlobAll(f, Glob(f, dir), file, <<>>))))

----------------------------------------------------------------------------
(* The snapshotter: staging *)

staticGlobs ==
    <<"/proc/cpuinfo",
      "/proc/meminfo",
      "/proc/self/mounts",
      "/sys/devices/system/cpu/cpu*/cache/index*/*",
      "/sys/devices/system/cpu/cpu*/topology/*",
      "/sys/devices/system/memory/block_size_bytes",
      "/sys/devices/system/memory/memory*/online",
      "/sys/devices/system/memory/memory*/state",
      "/sys/devices/system/node/has_*",
      "/sys/devices/system/node/online",
      "/sys/devices/system/node/possible",
      "/sys/devices/system/node/node*/cpu*",
      "/sys/devices/system/node/node*/distance",
      "/sys/devices/system/node/node*/meminfo",
      "/sys/devices/system/node/node*/memory*",
      "/sys/devices/system/node/node*/hugepages/hugepages-*/*">>

createPaths == <<"/sys/block">>

\* errors.Is(err, os.ErrPermission)
IsPermission(e) == e \in {"EACCES", "EPERM"}

\* snapshotter.addDir
addDir(f, bp, dir) == MkdirAll(f, Join(bp, dir))

\* copyLink giving back every error of os.Symlink
copyLink_NoExistCheck(f, path, targetPath) ==
    With(Readlink(f, path), LAMBDA target :
        IF target.err # "" THEN [fs |-> f, err |-> target.err]
        ELSE Symlink(f, target.target, targetPath))

\* copyLink: the link recreated with the target string of the source; a
\* link already there is left as it is
copyLink(f, path, targetPath) ==
    With(Readlink(f, path), LAMBDA target :
        IF target.err # "" THEN [fs |-> f, err |-> target.err]
        ELSE With(Symlink(f, target.target, targetPath), LAMBDA sl :
                 IF sl.err = "EEXIST" THEN [fs |-> f, err |-> ""] ELSE sl))

\* copyPseudoFile: the content read in full, then written to a new file
copyPseudoFile(f, path, targetPath) ==
    With(ReadFile(f, path), LAMBDA buf :
        IF buf.err # "" THEN [fs |-> f, err |-> buf.err]
        ELSE With(Create(f, targetPath), LAMBDA cr :
                 IF cr.err # "" THEN [fs |-> f, err |-> cr.err]
                 ELSE [fs |-> WriteFile(cr.fs, cr.key, buf.buf), err |-> ""]))

\* copyFile returning no error whatever the copy of the content gave
copyFile_ToleratesAll(f, bp, path) ==
    With(addDir(f, bp, Dir(path)), LAMBDA base :
        IF base.err # "" THEN [fs |-> base.fs, err |-> base.err, skipped |-> FALSE]
        ELSE With(Lstat(base.fs, path), LAMBDA fi :
        With(Join(bp, path), LAMBDA destPath :
            IF fi.err # "" THEN [fs |-> base.fs, err |-> fi.err, skipped |-> FALSE]
            ELSE IF base.fs[fi.key].kind = "dir"
            THEN IF Contains(destPath, "drivers")
                 THEN With(addDir(base.fs, bp, destPath), LAMBDA r :
                          [fs |-> r.fs, err |-> r.err, skipped |-> FALSE])
                 ELSE [fs |-> base.fs, err |-> "", skipped |-> FALSE]
            ELSE IF base.fs[fi.key].kind = "link"
            THEN With(copyLink(base.fs, path, destPath), LAMBDA r :
                     [fs |-> r.fs, err |-> r.err, skipped |-> FALSE])
            ELSE With(copyPseudoFile(base.fs, path, destPath), LAMBDA r :
                     IF r.err # ""
                     THEN [fs |-> r.fs, err |-> "", skipped |-> TRUE]
                     ELSE [fs |-> r.fs, err |-> r.err, skipped |-> FALSE]))))

\* snapshotter.copyFile: skipped tells that the content copy failed on
\* permission and the failure was dropped
copyFile(f, bp, path) ==
    With(addDir(f, bp, Dir(path)), LAMBDA base :
        IF base.err # "" THEN [fs |-> base.fs, err |-> base.err, skipped |-> FALSE]
        ELSE With(Lstat(base.fs, path), LAMBDA fi :
        With(Join(bp, path), LAMBDA destPath :
            IF fi.err # "" THEN [fs |-> base.fs, err |-> fi.err, skipped |-> FALSE]
            ELSE IF base.fs[fi.key].kind = "dir"
            THEN IF Contains(destPath, "drivers")
                 THEN With(addDir(base.fs, bp, destPath), LAMBDA r :
                          [fs |-> r.fs, err |-> r.err, skipped |-> FALSE])
                 ELSE [fs |-> base.fs, err |-> "", skipped |-> FALSE]
            ELSE IF base.fs[fi.key].kind = "link"
            THEN With(copyLink(base.fs, path, destPath), LAMBDA r :
                     [fs |-> r.fs, err |-> r.err, skipped |-> FALSE])
            ELSE With(copyPseudoFile(base.fs, path, destPath), LAMBDA r :
                     IF r.err # "" /\ IsPermission(r.err)
                     THEN [fs |-> r.fs, err |-> "", skipped |-> TRUE]
                     ELSE [fs |-> r.fs, err |-> r.err, skipped |-> FALSE]))))

\* the loop of New over createPaths
RECURSIVE AddDirs(_, _, _)
AddDirs(f, bp, dirs) ==
    IF dirs = <<>> THEN [fs |-> f, err |-> ""]
    ELSE With(addDir(f, bp, Head(dirs)), LAMBDA r :
             IF r.err # "" THEN r ELSE AddDirs(r.fs, bp, Tail(dirs)))

----------------------------------------------------------------------------
(* The snapshotter: packing *)

\* tar.FileInfoHeader and the callback of createSnapshot: the entry written
\* for the node at path
Header(bp, path, node) ==
    [typeflag |-> CASE node.kind = "dir" -> "dir"
                    [] node.kind = "file" -> "reg"
                    [] node.kind = "link" -> "symlink",
     name |-> TrimPrefix(TrimPrefix(path, bp), "/"),
     body |-> IF node.kind = "file" THEN node.data ELSE "",
     linkname |-> IF node.kind = "link" THEN node.data ELSE ""]

\* the walk leaving directories out of the archive
RECURSIVE WalkNames_NoDirs(_, _, _, _)
WalkNames_NoDirs(f, bp, dir, names) ==
    IF names = <<>> THEN <<>>
    ELSE With(Join(dir, Head(names)), LAMBDA path :
         With(f[Lstat(f, path).key], LAMBDA node :
             (IF node.kind = "dir"
              THEN WalkNames_NoDirs(f, bp, path, ReadDir(f, path).names)
              ELSE <<Header(bp, path, node)>>)
             \o WalkNames_NoDirs(f, bp, dir, Tail(names))))

\* filepath.Walk below dir: every node in lexical order, a directory before
\* what it holds; links are not followed
RECURSIVE WalkNames(_, _, _, _)
WalkNames(f, bp, dir, names) ==
    IF names = <<>> THEN <<>>
    ELSE With(Join(dir, Head(names)), LAMBDA path :
         With(f[Lstat(f, path).key], LAMBDA node :
             <<Header(bp, path, node)>>
             \o (IF node.kind = "dir"
                 THEN WalkNames(f, bp, path, ReadDir(f, path).names)
                 ELSE <<>>)
             \o WalkNames(f, bp, dir, Tail(names))))

\* filepath.Walk(buildPath): the root itself gives no entry
Walk(f, bp) ==
    With(Lstat(f, bp), LAMBDA fi :
        IF fi.err # "" \/ f[fi.key].kind # "dir" THEN <<>>
        ELSE WalkNames(f, bp, bp, ReadDir(f, bp).names))

\* createSnapshot writing whatever the file at outPath holds
createSnapshot_NoSizeCheck(f, bp, arch) ==
    [archive |-> [state |-> "data", entries |-> Walk(f, bp)], err |-> ""]

\* createSnapshot. A missing outPath is created and written. An existing
\* one is opened into a variable of the else block only: with size > 0 the
\* call fails; with size 0 the writers get the outer, nil file, and the
\* first write fails
createSnapshot(f, bp, arch) ==
    IF arch.state = "absent"
    THEN [archive |-> [state |-> "data", entries |-> Walk(f, bp)], err |-> ""]
    ELSE IF arch.state = "data"
    THEN [archive |-> arch, err |-> "file already exists and is of size >0"]
    ELSE [archive |-> arch, err |-> IF Walk(f, bp) = <<>> THEN "" ELSE "EINVAL"]

----------------------------------------------------------------------------
(* snapshot.New, step by step *)

\* New going on to the packing after a step has returned the error e
Fail_GoesOnToPack(e) ==
    /\ pc' = "pack"
    /\ err' = e
    /\ copying' = FALSE
    /\ globs' = <<>>
    /\ matches' = <<>>

Fail(e) ==
    /\ pc' = "failed"
    /\ err' = e
    /\ copying' = FALSE
    /\ globs' = <<>>
    /\ matches' = <<>>

\* New, lines 130-139: the snapshotter and the always-present directories
NewStart ==
    /\ pc = "start"
    /\ buildPath' = TrimSuffix(buildPath, "/")
    /\ \E r \in {AddDirs(fs, buildPath', createPaths)} :
          /\ fs' = r.fs
          /\ IF r.err # "" THEN Fail(r.err)
             ELSE pc' = "block" /\ UNCHANGED <<err, copying, globs, matches>>
    /\ UNCHANGED <<cwd, archive, resolved, skipped, walkVars, cloneVars, expVars, pathVars, cmdVars>>

\* New, line 141: createBlockDevices on a system without block devices;
\* it reports an error or none
CreateBlockDevices ==
    /\ pc = "block"
    /\ \/ pc' = "static" /\ UNCHANGED <<err, copying, globs, matches>>
       \/ Fail("EIO")
    /\ UNCHANGED <<envVars, buildPath, archive, resolved, skipped, walkVars, cloneVars, expVars, pathVars, cmdVars>>

\* a call of copyFileGlobs
BeginCopy(g) ==
    /\ ~copying
    /\ copying' = TRUE
    /\ globs' = g
    /\ matches' = <<>>
    /\ UNCHANGED <<envVars, pc, buildPath, err, archive, resolved, skipped, cloneVars, expVars, pathVars, cmdVars>>

\* New, line 144
CopyStatic == pc = "static" /\ BeginCopy(staticGlobs) /\ UNCHANGED walkVars

\* New, line 147
CopyNet == pc = "net" /\ BeginCopy(netGlobs(fs)) /\ UNCHANGED walkVars

\* New, line 150: pciGlobs is called
PciCall ==
    /\ pc = "pci"
    /\ pciPc = "off"
    /\ pciPc' = "idle"
    /\ UNCHANGED <<envVars, pciRoots, fileSpecs, scanned, cloneVars, capVars, expVars, pathVars, cmdVars>>

\* New, line 150: copyFileGlobs gets what pciGlobs returned
CopyPci ==
    /\ pc = "pci"
    /\ pciPc = "done"
    /\ BeginCopy(fileSpecs)
    /\ UNCHANGED walkVars

\* New, line 153
CopyGpu == pc = "gpu" /\ BeginCopy(gpuGlobs(fs)) /\ UNCHANGED walkVars

\* copyFileGlobs, lines 258-262: the next FileSpec is expanded
GlobStep ==
    /\ copying
    /\ matches = <<>>
    /\ globs # <<>>
    /\ matches' = Glob(fs, Head(globs))
    /\ globs' = Tail(globs)
    /\ resolved' = resolved \cup Range(matches')
    /\ UNCHANGED <<envVars, pc, buildPath, copying, err, archive, skipped,
                   walkVars, cloneVars, expVars, pathVars, cmdVars>>

\* copyFileGlobs, lines 263-267: the next match is copied
CopyStep ==
    /\ copying
    /\ matches # <<>>
    /\ \E r \in {copyFile(fs, buildPath, Head(matches))} :
           /\ fs' = r.fs
           /\ IF r.err # "" THEN Fail(r.err) /\ UNCHANGED skipped
              ELSE /\ matches' = Tail(matches)
                   /\ skipped' = IF r.skipped THEN skipped \cup {Head(matches)} ELSE skipped
                   /\ UNCHANGED <<pc, err, copying, globs>>
    /\ UNCHANGED <<cwd, buildPath, archive, resolved, walkVars, cloneVars, expVars, pathVars, cmdVars>>

NextPhase(p) ==
    CASE p = "static" -> "net"
      [] p = "net" -> "pci"
      [] p = "pci" -> "gpu"
      [] p = "gpu" -> "pack"

\* copyFileGlobs, line 269: every FileSpec is done
CopyReturn ==
    /\ copying
    /\ matches = <<>>
    /\ globs = <<>>
    /\ copying' = FALSE
    /\ pc' = NextPhase(pc)
    /\ UNCHANGED <<envVars, buildPath, globs, matches, err, archive, resolved, skipped,
                   walkVars, cloneVars, expVars, pathVars, cmdVars>>

\* New, line 156: createSnapshot, whole
CreateSnapshot ==
    /\ pc = "pack"
    /\ \E r \in {createSnapshot(fs, buildPath, archive)} :
           /\ archive' = r.archive
           /\ err' = r.err
           /\ pc' = IF r.err = "" THEN "done" ELSE "failed"
    /\ UNCHANGED <<envVars, buildPath, copying, globs, matches, resolved, skipped,
                   walkVars, cloneVars, expVars, pathVars, cmdVars>>

----------------------------------------------------------------------------
(* Expand and untar *)

\* exists answering yes for every path
exists_Always(f, path) == TRUE

\* exists: every outcome of os.Stat but "does not exist" counts as existing
exists(f, path) == Stat(f, path).err # "ENOENT"

\* isEmptyDir taking a directory it cannot list for an empty one
isEmptyDir_UnreadableIsEmpty(f, name) ==
    With(ReadDir(f, name), LAMBDA entries :
        IF entries.err # "" THEN TRUE ELSE Len(entries.names) = 0)

\* isEmptyDir: a path that cannot be listed is not an empty directory
isEmptyDir(f, name) ==
    With(ReadDir(f, name), LAMBDA entries :
        IF entries.err # "" THEN FALSE ELSE Len(entries.names) = 0)

\* Expand returns the error e
ExpandFail(e) == xpc' = "done" /\ xerr' = e /\ xrest' = <<>>

\* Expand, lines 168-172, and untar up to the first tr.Next: the archive is
\* opened and the gzip header read
OpenArchive ==
    /\ opened' = TRUE
    /\ IF archive.state = "absent" THEN ExpandFail("ENOENT")
       ELSE IF archive.state = "empty" THEN ExpandFail("EOF")
       ELSE xpc' = "untar" /\ xrest' = archive.entries /\ UNCHANGED xerr

\* Expand, lines 160-172: the destination is checked or created, then the
\* archive is opened
ExpandCall ==
    /\ xpc = "ready"
    /\ pc \in {"off", "done", "failed"}
    /\ IF ~exists(fs, toPath)
       THEN \E mk \in {MkdirAll(fs, toPath)} :
               /\ fs' = mk.fs
               /\ IF mk.err # "" THEN ExpandFail(mk.err) /\ UNCHANGED opened
                  ELSE OpenArchive
       ELSE IF ~isEmptyDir(fs, toPath)
            THEN ExpandFail("target directory is not empty") /\ UNCHANGED <<fs, opened>>
            ELSE OpenArchive /\ UNCHANGED fs
    /\ UNCHANGED <<cwd, toPath, calls, walkVars, cloneVars, capVars, pathVars, cmdVars>>

\* the error of tr.Next on a damaged stream
ErrHeader == "archive/tar: invalid tar header"

\* the body of untar's loop going on after every error
untarEntry_SwallowsErrors(f, to, header) ==
    With(Join(to, header.name), LAMBDA target :
        CASE header.typeflag = "corrupt" -> [fs |-> f, err |-> ""]
          [] header.typeflag = "dir" -> [fs |-> MkdirAll(f, target).fs, err |-> ""]
          [] header.typeflag = "reg" ->
               With(OpenFile(f, target, FALSE), LAMBDA dst :
                   IF dst.err # "" THEN [fs |-> dst.fs, err |-> ""]
                   ELSE [fs |-> WriteFile(dst.fs, dst.key, header.body), err |-> ""])
          [] header.typeflag = "symlink" ->
               [fs |-> Symlink(f, header.linkname, target).fs, err |-> ""]
          [] OTHER -> [fs |-> f, err |-> ""])

\* the body of untar's loop for one entry; the entry "corrupt" stands for
\* the place where the stream is damaged and tr.Next gives an error
untarEntry(f, to, header) ==
    With(Join(to, header.name), LAMBDA target :
        CASE header.typeflag = "corrupt" -> [fs |-> f, err |-> ErrHeader]
          [] header.typeflag = "dir" -> MkdirAll(f, target)
          [] header.typeflag = "reg" ->
               With(OpenFile(f, target, FALSE), LAMBDA dst :
                   IF dst.err # "" THEN [fs |-> dst.fs, err |-> dst.err]
                   ELSE [fs |-> WriteFile(dst.fs, dst.key, header.body), err |-> ""])
          [] header.typeflag = "symlink" -> Symlink(f, header.linkname, target)
          [] OTHER -> [fs |-> f, err |-> ""])

\* untar, lines 186-231: one entry is read and unpacked
UntarEntry ==
    /\ xpc = "untar"
    /\ xrest # <<>>
    /\ \E r \in {untarEntry(fs, toPath, Head(xrest))} :
           /\ fs' = r.fs
           /\ IF r.err # "" THEN ExpandFail(r.err)
              ELSE xrest' = Tail(xrest) /\ UNCHANGED <<xpc, xerr>>
    /\ UNCHANGED <<cwd, toPath, opened, calls, walkVars, cloneVars, capVars, pathVars, cmdVars>>

\* untar, lines 187-190: the end of the stream
UntarEOF ==
    /\ xpc = "untar"
    /\ xrest = <<>>
    /\ xpc' = "done"
    /\ UNCHANGED <<envVars, toPath, xrest, xerr, opened, calls, walkVars, cloneVars, capVars, pathVars, cmdVars>>

----------------------------------------------------------------------------
(* The systems a capture is run on *)

\* the file at the snapshot path before the capture: missing, of size 0, or
\* an older archive
StaleEntry == [typeflag |-> "reg", name |-> "old", body |-> "old\n", linkname |-> ""]

ArchiveStates ==
    {NoArchive, [state |-> "empty", entries |-> <<>>], [state |-> "data", entries |-> <<StaleEntry>>]}

\* the destination of the expansion
DestPath == "/tmp/x"

DestNodes(dest) ==
    CASE dest = "absent" -> <<>> :> DirNode
      [] dest = "empty" -> <<"tmp", "x">> :> DirNode
      [] dest = "full" -> <<"tmp", "x", "keep">> :> FileNode("keep\n")
      [] dest = "file" -> <<"tmp", "x">> :> FileNode("keep\n")
      [] dest = "locked" -> <<"tmp", "x">> :> [DirNode EXCEPT !.rd = "EACCES"]

\* what the static FileSpecs find
StaticNodes(cpuinfo) ==
    (IF cpuinfo = "absent" THEN <<>> :> DirNode
     ELSE <<"proc", "cpuinfo">> :> [FileNode("cpu\n") EXCEPT !.rd = cpuinfo])
    @@ (<<"sys", "devices", "system", "node", "node0", "cpu0">> :> LinkNode("../../cpu/cpu0"))
    @@ (<<"sys", "devices", "system", "node", "node0", "cpulist">> :> FileNode("0\n"))
    @@ (<<"sys", "devices", "system", "cpu", "cpu0", "topology", "core_id">> :> FileNode("0\n"))

\* what the class directories hold when device 1 is a network card and a
\* graphics card at once
ClassDevNodes(dev, up) ==
    (<<"sys", "class", "net", "eth0">> :> LinkNode(up \o "/net/eth0"))
    @@ (dev \o <<"net", "eth0", "addr_assign_type">> :> FileNode("0\n"))
    @@ (dev \o <<"net", "eth0", "address">> :> FileNode("aa:bb\n"))
    @@ (<<"sys", "class", "drm", "card0">> :> LinkNode(up \o "/drm/card0"))
    @@ (<<"sys", "class", "drm", "card0-DP-1">> :> LinkNode(up \o "/drm/card0/card0-DP-1"))
    @@ (dev \o <<"drm", "card0", "card0-DP-1">> :> DirNode)
    @@ (dev \o <<"drm", "card0", "device">> :> LinkNode("../../../0000:01:00.0"))

\* every PCI device is bound to a driver: its directory holds the link
\* "driver"
DriverLinks(par) ==
    [k \in {Append(DevKey(par, i), "driver") : i \in 1..Len(par)}
        |-> LinkNode("../../../bus/pci/drivers/e1000")]

\* the directory /root holds a tree that looks like sysfs (an expanded
\* snapshot, say), with one interface that the live system does not have
CwdNodes ==
    (<<"root", "sys", "class", "net", "tap0">> :> LinkNode("../../devices/platform/tap0"))
    @@ (<<"root", "sys", "devices", "platform", "tap0", "addr_assign_type">> :> FileNode("3\n"))

\* a build directory used before: it holds a link already
ReusedNodes ==
    <<"tmp", "b", "sys", "devices", "system", "node", "node0", "cpu0">>
        :> LinkNode("../../cpu/cpu0")

LiveFs(c) ==
    MkFs(StaticNodes(c.cpuinfo)
         @@ (IF c.reused THEN ReusedNodes ELSE <<>> :> DirNode)
         @@ DriverLinks(c.par)
         @@ DestNodes(c.dest)
         @@ (<<"tmp">> :> DirNode) @@ CwdNodes
         @@ (<<"sys", "bus", "pci", "drivers", "e1000", "bind">> :> FileNode(""))
         @@ (<<"sys", "class", "net", "lo">> :> LinkNode("../../devices/virtual/net/lo"))
         @@ (<<"sys", "devices", "virtual", "net", "lo", "addr_assign_type">> :> FileNode("0\n"))
         @@ (<<"sys", "class", "net", "bonding_masters">> :> FileNode("\n"))
         @@ (IF Len(c.par) >= 1
             THEN ClassDevNodes(DevKey(c.par, 1),
                                "../../devices/" \o JoinElems(Tail(Tail(DevKey(c.par, 1)))))
             ELSE <<>> :> DirNode)
         @@ AllDevNodes(c.par, Len(c.par), {"class", "vendor"}))

\* the build path as the caller names it: clean, with a trailing separator,
\* or with a doubled separator
BuildPaths == {"/tmp/b", "/tmp/b/", "/tmp//b"}

\* the captures checked: every fault on /proc/cpuinfo against every state of
\* the snapshot path and a fresh or reused build directory, and every PCI
\* tree against every working directory, build path and destination
CaptureConfigs ==
    {[cpuinfo |-> c, arch |-> a, par |-> <<0>>, cwd |-> "/", bp |-> "/tmp/b",
      dest |-> "absent", reused |-> r] :
        c \in {"", "EACCES", "EIO", "absent"}, a \in ArchiveStates, r \in BOOLEAN}
    \cup
    {[cpuinfo |-> "", arch |-> NoArchive, par |-> p, cwd |-> w, bp |-> b,
      dest |-> d, reused |-> FALSE] :
        p \in {<<>>, <<0>>, <<0, 1>>}, w \in {"/", "/root"}, b \in BuildPaths,
        d \in {"absent", "empty", "full"}}

InitCapture ==
    \E c \in CaptureConfigs :
        /\ fs = LiveFs(c)
        /\ cwd = c.cwd
        /\ pc = "start" /\ buildPath = c.bp /\ copying = FALSE /\ globs = <<>>
        /\ matches = <<>> /\ err = "" /\ archive = c.arch /\ resolved = {} /\ skipped = {}
        /\ xpc = "ready" /\ toPath = DestPath /\ xrest = <<>> /\ xerr = "" /\ opened = FALSE
        /\ calls = <<>>
        /\ WalkOff /\ CloneOff /\ PathsOff /\ ShowOff

NextCapture ==
    \/ NewStart \/ CreateBlockDevices
    \/ CopyStatic \/ CopyNet \/ PciCall \/ PciStart \/ PciScan \/ PciReturn \/ CopyPci \/ CopyGpu
    \/ GlobStep \/ CopyStep \/ CopyReturn
    \/ CreateSnapshot
    \/ ExpandCall \/ UntarEntry \/ UntarEOF

SpecCapture == InitCapture /\ [][NextCapture]_vars

----------------------------------------------------------------------------
(* Properties of capture and expansion *)

NoNode == [kind |-> "none", data |-> "", rd |-> ""]

\* the node a path names, links in the last position not followed
NodeAt(f, p) ==
    With(Lstat(f, p), LAMBDA st : IF st.err # "" THEN NoNode ELSE f[st.key])

\* d reproduces the file or link s
SameEntry(s, d) == d.kind = s.kind /\ d.data = s.data

\* a capture has returned without error and its archive has been expanded
\* without error
RoundTripDone == pc = "done" /\ xpc = "done" /\ xerr = ""

\* C1: after capture and expansion into an empty destination, every
\* concrete path resolved from a FileSpec has an entry at the same relative
\* path of the destination, a regular file with the bytes of the source and
\* a symlink with the target string of the source.
RoundTrip ==
    RoundTripDone =>
        \A p \in resolved :
            /\ NodeAt(fs, Join(toPath, p)).kind # "none"
            /\ NodeAt(fs, p).kind \in {"file", "link"} =>
                  SameEntry(NodeAt(fs, p), NodeAt(fs, Join(toPath, p)))

\* C3: when the file at outPath holds bytes, no step of the capture changes
\* them, and createSnapshot returns an error.
WriteOnce ==
    [][archive.state = "data" =>
          /\ archive' = archive
          /\ pc = "pack" => pc' = "failed" /\ err' # ""]_vars

\* createSnapshot has refused an outPath that held an older archive
WriteOnceWitness ==
    /\ pc = "failed"
    /\ err = "file already exists and is of size >0"
    /\ archive = [state |-> "data", entries |-> <<StaleEntry>>]

\* the error of the system call that fails while path is materialized: the
\* read of a regular file, or the creation of a link that is already there
CopyError(f, bp, path) ==
    With(NodeAt(f, path), LAMBDA s :
        IF s.kind = "file" THEN s.rd
        ELSE IF s.kind = "link" /\ NodeAt(f, Join(bp, path)).kind # "none" THEN "EEXIST"
        ELSE "")

\* the step skips the path: the capture goes on with the next path and the
\* staged node, if any, stays as it is
Tolerated(path) ==
    /\ pc' = pc /\ err' = "" /\ copying'
    /\ matches' = Tail(matches)
    /\ NodeAt(fs', Join(buildPath, path)) = NodeAt(fs, Join(buildPath, path))

----------------------------------------------------------------------------
(* Packing and expanding a given staging tree *)

StagingRoot == <<"tmp", "b">>

\* what a staging tree can hold, by position below the staging root
StagingChoices ==
    {<<"proc", "cpuinfo">>, <<"proc", "meminfo">>, <<"sys", "block">>,
     <<"sys", "block", "sda">>, <<"sys", "class", "net", "eth0">>}

StagingNode(k) ==
    CASE k = <<"proc", "cpuinfo">> -> FileNode("hello\n")
      [] k = <<"proc", "meminfo">> -> FileNode("mem\n")
      [] k = <<"sys", "class", "net", "eth0">> -> LinkNode("../../devices/virtual/net/eth0")
      [] OTHER -> DirNode

\* the tree holding the chosen nodes and the directories above them
StagingTree(chosen) == MkFs([k \in chosen |-> StagingNode(k)])

\* the file system with that tree at the staging root
StagedFs(chosen, dest) ==
    MkFs([k \in {StagingRoot \o q : q \in DOMAIN StagingTree(chosen)}
             |-> StagingTree(chosen)[Tail(Tail(k))]]
         @@ DestNodes(dest))

InitPack ==
    /\ cwd = "/"
    /\ \E chosen \in SUBSET StagingChoices :
       \E dest \in {"absent", "empty", "full", "file", "locked"} :
          fs = StagedFs(chosen, dest)
    /\ archive \in ArchiveStates
    /\ pc = "pack" /\ buildPath = "/tmp/b" /\ copying = FALSE /\ globs = <<>>
    /\ matches = <<>> /\ err = "" /\ resolved = {} /\ skipped = {}
    /\ xpc = "ready" /\ toPath = DestPath /\ xrest = <<>> /\ xerr = "" /\ opened = FALSE
    /\ calls = <<>>
    /\ WalkOff /\ CloneOff /\ PathsOff /\ ShowOff

NextPack == CreateSnapshot \/ ExpandCall \/ UntarEntry \/ UntarEOF

SpecPack == InitPack /\ [][NextPack]_vars

----------------------------------------------------------------------------
(* Properties of packing and of the destination check *)

\* the staging tree of the file system, by position below the staging root
Staged ==
    [k \in {Tail(Tail(q)) : q \in {r \in DOMAIN fs : /\ Len(r) >= 2
                                                     /\ SubSeq(r, 1, 2) = StagingRoot}}
        |-> fs[StagingRoot \o k]]

\* the staging tree of the scenario: proc/cpuinfo, the empty directory
\* sys/block and the link sys/class/net/eth0
IsScenario ==
    Staged = StagingTree({<<"proc", "cpuinfo">>, <<"sys", "block">>,
                          <<"sys", "class", "net", "eth0">>})

EntriesOfType(t) == Cardinality({i \in DOMAIN archive.entries : archive.entries[i].typeflag = t})

\* C9 as stated: the scenario's staging tree packs to exactly three
\* entries, one regular file, one directory and one symlink.
ScenarioThreeEntries ==
    pc = "done" /\ IsScenario =>
        /\ Len(archive.entries) = 3
        /\ EntriesOfType("reg") = 1
        /\ EntriesOfType("dir") = 1
        /\ EntriesOfType("symlink") = 1

\* C9 amended: the scenario's staging tree packs to exactly seven entries:
\* the regular file, the symlink and one entry for each of the five
\* directories proc, sys, sys/block, sys/class and sys/class/net.
ScenarioSevenEntries ==
    pc = "done" /\ IsScenario =>
        /\ [i \in DOMAIN archive.entries |-> archive.entries[i].name]
              = <<"proc", "proc/cpuinfo", "sys", "sys/block", "sys/class",
                  "sys/class/net", "sys/class/net/eth0">>
        /\ EntriesOfType("reg") = 1
        /\ EntriesOfType("dir") = 5
        /\ EntriesOfType("symlink") = 1

\* the scenario's staging tree has been packed
ScenarioWitness == pc = "done" /\ IsScenario /\ archive.state = "data"

\* the destination exists and is not an empty directory
DestBlocked ==
    With(Stat(fs, toPath), LAMBDA st :
        /\ st.err # "ENOENT"
        /\ ~(st.err = "" /\ fs[st.key].kind = "dir" /\ ChildNames(fs, st.key) = {}))

\* C2: Expand called on a destination that exists and is not an empty
\* directory returns an error without having opened the archive and leaves
\* the file system as it was.
DestinationGuard ==
    [][xpc = "ready" /\ xpc' # "ready" /\ DestBlocked =>
          xpc' = "done" /\ xerr' # "" /\ ~opened' /\ fs' = fs]_vars

\* Expand has refused a directory holding a file, and the file is there
DestinationGuardWitness ==
    /\ xpc = "done"
    /\ xerr = "target directory is not empty"
    /\ ~opened
    /\ NodeAt(fs, "/tmp/x/keep") = FileNode("keep\n")

----------------------------------------------------------------------------
(* The paths of the hardware-info providers: context options and path.New *)

\* envutil.WithDefault: the value of the variable when it is set
WithDefault(env, key, def) == IF env[key] # "" THEN env[key] ELSE def

defaultRootMountpoint == "/"

defaultDisableWarnings == FALSE

defaultDisableExternalTools == FALSE

\* envutil.WithDefaultBool: the truth value the variable spells, the
\* default when it is not set or spells none
WithDefaultBool(env, key, def) ==
    IF env[key] \in {"1", "true"} THEN TRUE
    ELSE IF env[key] \in {"0", "false"} THEN FALSE
    ELSE def

\* defaultOpts: a new Options struct. The root mountpoint is taken from
\* GHW_ROOT_MOUNTPOINT, else from the deprecated GHW_CHROOT, else "/";
\* PathOverrides is left nil
defaultOpts(env) ==
    [RootMountpoint |-> WithDefault(env, "GHW_ROOT_MOUNTPOINT",
                            WithDefault(env, "GHW_CHROOT", defaultRootMountpoint)),
     PathOverrides |-> [nil |-> TRUE, map |-> <<>>],
     DisableWarnings |-> WithDefaultBool(env, "GHW_DISABLE_WARNINGS", defaultDisableWarnings),
     DisableExternalTools |->
         WithDefaultBool(env, "GHW_DISABLE_EXTERNAL_TOOLS",
             WithDefaultBool(env, "GHW_DISABLE_TOOLS", defaultDisableExternalTools))]

\* context.TODO(): a context that carries no Options
NoOptions == [has |-> FALSE, ptr |-> 0]

\* OptionsFromContext: the pointer stored in the context, or the pointer to
\* a new struct of defaults when the context carries none; h is the heap
\* before the call, heap the heap after it
OptionsFromContext(env, h, c) ==
    IF c.has THEN [heap |-> h, ptr |-> c.ptr]
    ELSE [heap |-> Append(h, defaultOpts(env)), ptr |-> Len(h) + 1]

\* the struct a pointer returned by OptionsFromContext points to
Deref(o) == o.heap[o.ptr]

\* a modifier: the struct OptionsFromContext returns is written in place
\* and its pointer stored in the context that is returned
Modified(o, field, value) ==
    [heap |-> [o.heap EXCEPT ![o.ptr][field] = value],
     ctx |-> [has |-> TRUE, ptr |-> o.ptr]]

\* WithDisableWarnings: the modifier applied to context c
WithDisableWarnings(env, h, c) ==
    Modified(OptionsFromContext(env, h, c), "DisableWarnings", TRUE)

\* WithDisableExternalTools: the modifier applied to context c
WithDisableExternalTools(env, h, c) ==
    Modified(OptionsFromContext(env, h, c), "DisableExternalTools", TRUE)

\* WithRootMountpoint: the modifier applied to context c
WithRootMountpoint(env, h, c, path) ==
    Modified(OptionsFromContext(env, h, c), "RootMountpoint", path)

\* WithPathOverrides: the modifier applied to context c
WithPathOverrides(env, h, c, overrides) ==
    Modified(OptionsFromContext(env, h, c), "PathOverrides", [nil |-> FALSE, map |-> overrides])

DefaultPathRoots ==
    [Etc |-> "/etc", Proc |-> "/proc", Run |-> "/run", Sys |-> "/sys", Var |-> "/var"]

\* one "if p, ok := overrides[key]; ok" of PathRootsFromContext
Override(overrides, key, def) ==
    IF key \in DOMAIN overrides THEN overrides[key] ELSE def

\* PathRootsFromContext with the /proc override also taken for /sys
PathRootsFromContext_ProcForSys(env, h, c) ==
    With(Deref(OptionsFromContext(env, h, c)), LAMBDA o :
        IF o.PathOverrides.nil THEN DefaultPathRoots
        ELSE [Etc |-> Override(o.PathOverrides.map, "/etc", DefaultPathRoots.Etc),
              Proc |-> Override(o.PathOverrides.map, "/proc", DefaultPathRoots.Proc),
              Run |-> Override(o.PathOverrides.map, "/run", DefaultPathRoots.Run),
              Sys |-> Override(o.PathOverrides.map, "/proc", DefaultPathRoots.Sys),
              Var |-> Override(o.PathOverrides.map, "/var", DefaultPathRoots.Var)])

PathRootsFromContext(env, h, c) ==
    With(Deref(OptionsFromContext(env, h, c)), LAMBDA o :
        IF o.PathOverrides.nil THEN DefaultPathRoots
        ELSE [Etc |-> Override(o.PathOverrides.map, "/etc", DefaultPathRoots.Etc),
              Proc |-> Override(o.PathOverrides.map, "/proc", DefaultPathRoots.Proc),
              Run |-> Override(o.PathOverrides.map, "/run", DefaultPathRoots.Run),
              Sys |-> Override(o.PathOverrides.map, "/sys", DefaultPathRoots.Sys),
              Var |-> Override(o.PathOverrides.map, "/var", DefaultPathRoots.Var)])

\* filepath.Join of any number of elements: the empty ones are dropped, the
\* others joined by separators and the result cleaned
JoinAll(elems) ==
    With(SelectSeq(elems, LAMBDA e : e # ""), LAMBDA ne :
        IF ne = <<>> THEN "" ELSE Clean(JoinElems(ne)))

\* path.New
PathNew(env, h, c) ==
    With(<<Deref(OptionsFromContext(env, h, c)).RootMountpoint, PathRootsFromContext(env, h, c)>>,
         LAMBDA rr :
        [VarLog |-> JoinAll(<<rr[1], rr[2].Var, "log">>),
         ProcMeminfo |-> JoinAll(<<rr[1], rr[2].Proc, "meminfo">>),
         ProcCpuinfo |-> JoinAll(<<rr[1], rr[2].Proc, "cpuinfo">>),
         ProcMounts |-> JoinAll(<<rr[1], rr[2].Proc, "self", "mounts">>),
         SysKernelMMHugepages |-> JoinAll(<<rr[1], rr[2].Sys, "kernel", "mm", "hugepages">>),
         SysBlock |-> JoinAll(<<rr[1], rr[2].Sys, "block">>),
         SysDevicesSystemNode |-> JoinAll(<<rr[1], rr[2].Sys, "devices", "system", "node">>),
         SysDevicesSystemMemory |-> JoinAll(<<rr[1], rr[2].Sys, "devices", "system", "memory">>),
         SysDevicesSystemCPU |-> JoinAll(<<rr[1], rr[2].Sys, "devices", "system", "cpu">>),
         SysBusPciDevices |-> JoinAll(<<rr[1], rr[2].Sys, "bus", "pci", "devices">>),
         SysClassDRM |-> JoinAll(<<rr[1], rr[2].Sys, "class", "drm">>),
         SysClassDMI |-> JoinAll(<<rr[1], rr[2].Sys, "class", "dmi">>),
         SysClassNet |-> JoinAll(<<rr[1], rr[2].Sys, "class", "net">>),
         RunUdevData |-> JoinAll(<<rr[1], rr[2].Run, "udev", "data">>)])

\* how many modifiers one context is built from
MaxMods == 2

\* context.New, line 28: the next modifier is applied to the context and
\* the context it returns is kept
Applies(r, m) ==
    /\ pathPc = "build" /\ Len(mods) < MaxMods
    /\ heap' = r.heap
    /\ ctx' = r.ctx
    /\ mods' = Append(mods, m)
    /\ UNCHANGED <<environ, paths, pathPc, envVars, walkVars, cloneVars, capVars, expVars, cmdVars>>

CtxWithRootMountpoint(path) ==
    Applies(WithRootMountpoint(environ, heap, ctx, path),
            [op |-> "root", root |-> path, map |-> <<>>])

CtxWithPathOverrides(overrides) ==
    Applies(WithPathOverrides(environ, heap, ctx, overrides),
            [op |-> "overrides", root |-> "", map |-> overrides])

CtxWithDisableWarnings ==
    Applies(WithDisableWarnings(environ, heap, ctx),
            [op |-> "warnings", root |-> "", map |-> <<>>])

CtxWithDisableExternalTools ==
    Applies(WithDisableExternalTools(environ, heap, ctx),
            [op |-> "tools", root |-> "", map |-> <<>>])

\* a provider asks for its paths
PathsNew ==
    /\ pathPc = "build"
    /\ paths' = PathNew(environ, heap, ctx)
    /\ pathPc' = "done"
    /\ UNCHANGED <<environ, ctx, heap, mods, envVars, walkVars, cloneVars, capVars, expVars, cmdVars>>

\* the root mountpoints and the subtree overrides a caller passes
RootChoices == {"/", "/redirect", "/host/"}

OverrideValues ==
    [x \in {"/etc", "/proc", "/run", "/sys", "/var", "/dev"} |->
        IF x = "/etc" THEN "/host2-etc"
        ELSE IF x = "/proc" THEN "/host2-proc"
        ELSE IF x = "/run" THEN "/host2-run"
        ELSE IF x = "/sys" THEN "/host2-sys"
        ELSE IF x = "/var" THEN "/mnt/var/"
        ELSE "/host2-dev"]

OverrideChoices ==
    {[k \in K |-> OverrideValues[k]] :
        K \in {{}, {"/proc"}, {"/proc", "/sys"}, {"/var"}, {"/etc", "/run"}, {"/dev"},
               DOMAIN OverrideValues}}

\* the environment: the variables of the root mountpoint, and the switches
\* left unset or set to a truth value
EnvironChoices ==
    {[GHW_ROOT_MOUNTPOINT |-> r[1], GHW_CHROOT |-> r[2], GHW_DISABLE_WARNINGS |-> b[1],
      GHW_DISABLE_EXTERNAL_TOOLS |-> b[2], GHW_DISABLE_TOOLS |-> b[3]] :
        r \in {<<"", "">>, <<"/host", "">>, <<"", "/chroot">>, <<"/host", "/chroot">>},
        b \in {<<"", "", "">>, <<"1", "0", "true">>}}

InitPaths ==
    /\ environ \in EnvironChoices
    /\ ctx = NoOptions
    /\ heap = <<>>
    /\ mods = <<>>
    /\ paths = <<>>
    /\ pathPc = "build"
    /\ fs = MkFs(<<>> :> DirNode) /\ cwd = "/"
    /\ WalkOff /\ CloneOff /\ CaptureOff /\ ExpandOff /\ ShowOff

NextPaths ==
    \/ \E path \in RootChoices : CtxWithRootMountpoint(path)
    \/ \E overrides \in OverrideChoices : CtxWithPathOverrides(overrides)
    \/ CtxWithDisableWarnings \/ CtxWithDisableExternalTools
    \/ PathsNew

SpecPaths == InitPaths /\ [][NextPaths]_vars

----------------------------------------------------------------------------
(* Properties of the provider paths *)

\* what the caller asked for: the argument of the last modifier of a kind
LastMod(op) ==
    With({i \in 1..Len(mods) : mods[i].op = op}, LAMBDA S :
        IF S = {} THEN [op |-> "", root |-> "", map |-> <<>>] ELSE mods[Max(S)])

\* the root mountpoint R in force: the one passed, else the one of the
\* environment, else the live root
RootInForce ==
    IF LastMod("root").op = "root" THEN LastMod("root").root
    ELSE IF environ.GHW_ROOT_MOUNTPOINT # "" THEN environ.GHW_ROOT_MOUNTPOINT
    ELSE IF environ.GHW_CHROOT # "" THEN environ.GHW_CHROOT
    ELSE "/"

\* the subtree overrides O in force
OverridesInForce == LastMod("overrides").map

\* the canonical subtree each field of Paths lies in, and its fixed suffix
PathTable ==
    [VarLog |-> <<"/var", "log">>,
     ProcMeminfo |-> <<"/proc", "meminfo">>,
     ProcCpuinfo |-> <<"/proc", "cpuinfo">>,
     ProcMounts |-> <<"/proc", "self/mounts">>,
     SysKernelMMHugepages |-> <<"/sys", "kernel/mm/hugepages">>,
     SysBlock |-> <<"/sys", "block">>,
     SysDevicesSystemNode |-> <<"/sys", "devices/system/node">>,
     SysDevicesSystemMemory |-> <<"/sys", "devices/system/memory">>,
     SysDevicesSystemCPU |-> <<"/sys", "devices/system/cpu">>,
     SysBusPciDevices |-> <<"/sys", "bus/pci/devices">>,
     SysClassDRM |-> <<"/sys", "class/drm">>,
     SysClassDMI |-> <<"/sys", "class/dmi">>,
     SysClassNet |-> <<"/sys", "class/net">>,
     RunUdevData |-> <<"/run", "udev/data">>]

\* the canonical subtree roots
Subtrees == {"/etc", "/proc", "/run", "/sys", "/var"}

SubtreeRoot(O, subtree) == IF subtree \in DOMAIN O THEN O[subtree] ELSE subtree

Expected(R, O, field) ==
    JoinAll(<<R, SubtreeRoot(O, PathTable[field][1]), PathTable[field][2]>>)

\* the context of the caller with the root of one more subtree overridden
Overridden(subtree, root) ==
    WithPathOverrides(environ, heap, ctx,
        [k \in DOMAIN OverridesInForce \cup {subtree} |->
            IF k = subtree THEN root ELSE OverridesInForce[k]])

\* C11: every path of Paths is the join of the root mountpoint in force, the
\* root of its subtree (the override when one is given, the canonical
\* default otherwise) and its fixed suffix; overriding the root of one
\* subtree changes no path of another subtree; and a root mountpoint given
\* together with overrides combines with them (/redirect and
\* /proc -> /host2-proc give /redirect/host2-proc/cpuinfo).
RootMountpointOverride ==
    pathPc = "done" =>
        /\ \A field \in DOMAIN PathTable :
              paths[field] = Expected(RootInForce, OverridesInForce, field)
        /\ \A subtree \in Subtrees :
              \E q \in {With(Overridden(subtree, "/elsewhere"),
                              LAMBDA r : PathNew(environ, r.heap, r.ctx))} :
                  \A field \in DOMAIN PathTable :
                      PathTable[field][1] # subtree => q[field] = paths[field]
        /\ (RootInForce = "/redirect" /\ "/proc" \in DOMAIN OverridesInForce)
              => paths.ProcCpuinfo = "/redirect/host2-proc/cpuinfo"

\* a root mountpoint and overrides of /proc and /sys were both given, and
\* the paths were computed
RootMountpointOverrideWitness ==
    /\ pathPc = "done"
    /\ RootInForce = "/redirect"
    /\ DOMAIN OverridesInForce = {"/proc", "/sys"}
    /\ paths.ProcCpuinfo = "/redirect/host2-proc/cpuinfo"
    /\ paths.SysBusPciDevices = "/redirect/host2-sys/bus/pci/devices"
    /\ paths.VarLog = "/redirect/var/log"

----------------------------------------------------------------------------
(* Properties of the network invocation *)

\* the last element of a path
Base(p) == With(SplitPath(p), LAMBDA e : IF e = <<>> THEN "" ELSE e[Len(e)])

NetClass == SysClass("net")

\* the network interfaces the network invocation accepts: the entries of
\* the class directory that are links to a device that is not virtual
AcceptedInterfaces ==
    With(ReadDir(fs, NetClass), LAMBDA d :
        IF d.err # "" THEN {}
        ELSE {n \in Range(d.names) :
                 With(Readlink(fs, Join(NetClass, n)), LAMBDA l :
                     l.err = "" /\ ~Contains(l.target, "devices/virtual/net"))})

\* the FileSpec names an attribute in the directory of the device behind
\* interface n
UnderBackingDevice(spec, n) ==
    With(<<Lstat(fs, Dir(spec)), Stat(fs, Join(NetClass, n))>>, LAMBDA st :
        st[1].key = st[2].key /\ st[1].err = st[2].err)

\* what the network invocation may emit: for every accepted interface its
\* class entry and, under its backing device, addr_assign_type and nothing
\* else; never the attribute address
NetSpecsOk(g) ==
    /\ \A i \in DOMAIN g :
          /\ Base(g[i]) # "address" \/ Dir(g[i]) = NetClass
          /\ \E n \in AcceptedInterfaces :
                \/ g[i] = Join(NetClass, n)
                \/ UnderBackingDevice(g[i], n) /\ Base(g[i]) = "addr_assign_type"
    /\ \A n \in AcceptedInterfaces :
          Cardinality({i \in DOMAIN g : g[i] # Join(NetClass, n) /\ UnderBackingDevice(g[i], n)}) = 1

\* C12: the FileSpecs of the network invocation are, for every accepted
\* interface, its class entry and the one attribute addr_assign_type under
\* the backing device directory; none of them, and no concrete path copied
\* for them, names the hardware-address attribute "address".
PrivacyOfNetworkCapture ==
    [][/\ (pc = "net" /\ ~copying /\ copying') => NetSpecsOk(globs')
       /\ (pc = "net" /\ pc' = "net") => \A i \in DOMAIN matches' : Base(matches'[i]) # "address"]_vars

\* the network FileSpecs were copied: the assignment type of the device
\* behind eth0 is staged and its hardware address, present on the live
\* system, is not
PrivacyOfNetworkCaptureWitness ==
    /\ pc = "pci"
    /\ NodeAt(fs, "/sys/class/net/eth0").kind = "link"
    /\ \E k \in DOMAIN fs \ {<<>>} :
          /\ k[Len(k)] = "address"
          /\ fs[k].kind = "file"
          /\ Append(SubSeq(k, 1, Len(k) - 1), "addr_assign_type") \in DOMAIN fs
          /\ SplitPath(buildPath) \o Append(SubSeq(k, 1, Len(k) - 1), "addr_assign_type") \in DOMAIN fs
          /\ SplitPath(buildPath) \o k \notin DOMAIN fs

----------------------------------------------------------------------------
(* Properties of Expand *)

\* the destination does not exist, or is a directory that lists as empty
FreshDestination ==
    With(Stat(fs, toPath), LAMBDA st :
        \/ st.err = "ENOENT"
        \/ st.err = "" /\ fs[st.key] = DirNode /\ ChildNames(fs, st.key) = {})

\* the kind of node an entry of the archive stands for
KindOf(typeflag) ==
    CASE typeflag = "dir" -> "dir"
      [] typeflag = "reg" -> "file"
      [] typeflag = "symlink" -> "link"
      [] OTHER -> "none"

\* every entry of the archive is in the destination, as the kind of node it
\* stands for
AllExtracted ==
    \A i \in DOMAIN archive.entries :
        NodeAt(fs, Join(toPath, archive.entries[i].name)).kind
            = KindOf(archive.entries[i].typeflag)

\* C13: Expand called with an archive written by packing and a destination
\* that does not exist creates the destination and goes on to extract; with
\* a destination that is an empty directory it goes on to extract; in both
\* cases it returns no error, with every entry extracted.
ExpandIntoFresh ==
    /\ [][(xpc = "ready" /\ xpc' # "ready" /\ FreshDestination /\ archive.state = "data") =>
             /\ NodeAt(fs', toPath).kind = "dir"
             /\ xpc' = "untar" /\ xrest' = archive.entries /\ xerr' = "" /\ opened']_vars
    /\ [](xpc = "done" /\ opened /\ archive.state = "data" => xerr = "" /\ AllExtracted)

\* an archive holding a directory, a regular file and a link has been
\* expanded without error
ExpandIntoFreshWitness ==
    /\ xpc = "done" /\ xerr = "" /\ opened /\ pc = "done"
    /\ \A t \in {"dir", "reg", "symlink"} : EntriesOfType(t) >= 1
    /\ AllExtracted

----------------------------------------------------------------------------
(* Expand on archives of any origin *)

Entry(typeflag, name, body, linkname) ==
    [typeflag |-> typeflag, name |-> name, body |-> body, linkname |-> linkname]

\* the entries an archive is made of: a directory, a file below it with a
\* longer and with a shorter content, a link out of the destination, a file
\* written through that link, a name with "..", an entry of another type
\* (a FIFO), and the place where the stream is damaged
EntryChoices ==
    {Entry("dir", "d", "", ""),
     Entry("reg", "d/f", "abc", ""),
     Entry("reg", "d/f", "x", ""),
     Entry("symlink", "d/l", "", "/tmp/out"),
     Entry("reg", "d/l/evil", "x", ""),
     Entry("reg", "../evil", "x", ""),
     Entry("fifo", "d/p", "", ""),
     Entry("corrupt", "", "", "")}

\* how many entries an archive holds
MaxEntries == 3

Archives == UNION {[1..n -> EntryChoices] : n \in 0..MaxEntries}

InitExpand ==
    /\ cwd = "/"
    /\ \E dest \in {"absent", "empty"} :
          fs = MkFs(DestNodes(dest) @@ (<<"tmp", "out">> :> DirNode))
    /\ \E entries \in Archives : archive = [state |-> "data", entries |-> entries]
    /\ pc = "off" /\ buildPath = "" /\ copying = FALSE /\ globs = <<>> /\ matches = <<>>
    /\ err = "" /\ resolved = {} /\ skipped = {}
    /\ xpc = "ready" /\ toPath = DestPath /\ xrest = <<>> /\ xerr = "" /\ opened = FALSE
    /\ calls = <<>>
    /\ WalkOff /\ CloneOff /\ PathsOff /\ ShowOff

NextExpand == ExpandCall \/ UntarEntry \/ UntarEOF

SpecExpand == InitExpand /\ [][NextExpand]_vars

----------------------------------------------------------------------------
(* Properties of untar *)

\* untar is about to unpack an entry of the given type
Unpacking(typeflag) == xpc = "untar" /\ xrest # <<>> /\ Head(xrest).typeflag = typeflag

\* where the entry being unpacked goes
Target == Join(toPath, Head(xrest).name)

\* C14: when untar has processed a regular-file entry without error, the
\* file at the entry's target path holds exactly the bytes stored in the
\* entry, also when a file was already there.
RegularFileExact ==
    [][(Unpacking("reg") /\ xpc' = "untar") =>
          ReadFile(fs', Target) = [err |-> "", buf |-> Head(xrest).body]]_vars

\* the node at location k lies in the destination directory (or is it)
InsideDestination(k) ==
    With(SplitPath(toPath), LAMBDA d : Len(k) >= Len(d) /\ SubSeq(k, 1, Len(d)) = d)

\* the locations a step has created or written
Touched == {k \in DOMAIN fs' : k \notin DOMAIN fs \/ fs'[k] # fs[k]}

\* C15: every directory, regular file and symlink that Expand creates or
\* writes lies inside the destination directory, whatever the archive
\* holds.
ExpandContained ==
    [][(xpc \in {"ready", "untar"}) => (\A k \in Touched : InsideDestination(k))]_vars

IsSuffix(s, t) == \E n \in 0..Len(t) : s = SubSeq(t, n + 1, Len(t))

\* every node of f is in g, unchanged
Kept(f, g) == \A k \in DOMAIN f : k \in DOMAIN g /\ g[k] = f[k]

\* the entry being unpacked cannot be placed: the directory it goes into is
\* missing, or it is a link and its name is taken
CannotPlace ==
    /\ xpc = "untar" /\ xrest # <<>>
    /\ Head(xrest).typeflag \in {"reg", "symlink"}
    /\ \/ Stat(fs, Dir(Target)).err # ""
       \/ Head(xrest).typeflag = "symlink" /\ Lstat(fs, Target).err = ""

----------------------------------------------------------------------------
(* Properties of the staging tree *)

\* the location of the staging root
BuildKey == SplitPath(buildPath)

\* the locations below the staging root, relative to it
StagedKeys ==
    {SubSeq(k, Len(BuildKey) + 1, Len(k)) :
        k \in {q \in DOMAIN fs : Len(q) > Len(BuildKey) /\ SubSeq(q, 1, Len(BuildKey)) = BuildKey}}

\* the directories capture creates on every system, and the ones above them
FixedKeys == UNION {Prefixes(SplitPath(createPaths[i])) : i \in DOMAIN createPaths}

\* C17: every node of the staging tree that was materialized for a FileSpec
\* (every node but the fixed directories) has its source at the same
\* position below the live root: a node of the same kind, with the same
\* link target when it is a link; and this for every working directory.
StagingPosition ==
    pc \in {"static", "net", "pci", "gpu", "pack", "done"} =>
        \A k \in StagedKeys \ FixedKeys :
            /\ k \in DOMAIN fs
            /\ fs[k].kind = fs[BuildKey \o k].kind
            /\ fs[k].kind = "link" => fs[k].data = fs[BuildKey \o k].data

----------------------------------------------------------------------------
(* Properties of the capture as a whole *)

\* the steps of a capture, in order
CaptureSteps == <<"start", "block", "static", "net", "pci", "gpu", "pack", "done">>

StepIndex(p) == CHOOSE i \in DOMAIN CaptureSteps : CaptureSteps[i] = p

BeforePacking == {"start", "block", "static", "net", "pci", "gpu"}

\* C18: a capture goes through its steps in order: the fixed directories,
\* the block devices, the static, network, PCI and graphics FileSpecs, the
\* packing. A step before the packing that fails makes the capture return
\* that error at once: no later step runs, nothing is retried, and the file
\* at the snapshot path is neither created nor written; that file is
\* touched by the packing only.
CaptureOrderAndAbort ==
    [][/\ pc' # pc =>
             \/ pc' = "failed" /\ err' # "" /\ pc \in BeforePacking \cup {"pack"}
             \/ /\ pc \in BeforePacking \cup {"pack"}
                /\ pc' = CaptureSteps[StepIndex(pc) + 1]
                /\ err' = ""
       /\ pc # "pack" => archive' = archive
       /\ pc \in {"start", "block", "static", "net"} => pciPc = "off" /\ pciPc' = "off"
       /\ pc \in {"failed", "done"} =>
             /\ pc' = pc /\ err' = err /\ archive' = archive
             /\ resolved' = resolved /\ skipped' = skipped
             /\ pciPc' = pciPc /\ copying' = copying
             /\ \A k \in DOMAIN fs' :
                    (Len(k) >= Len(BuildKey) /\ SubSeq(k, 1, Len(BuildKey)) = BuildKey) =>
                        k \in DOMAIN fs /\ fs'[k] = fs[k]]_vars

\* reading /proc/cpuinfo failed in the static step: the capture has returned
\* that error, the network step and the PCI walk never ran, and there is no
\* file at the snapshot path
CaptureOrderAndAbortWitness ==
    /\ pc = "failed" /\ err = "EIO"
    /\ NodeAt(fs, "/proc/cpuinfo").rd = "EIO"
    /\ "/proc/cpuinfo" \in resolved
    /\ \A p \in resolved : ~Contains(p, "sys/class")
    /\ pciPc = "off"
    /\ archive = NoArchive

\* C19: the packing of a capture whose snapshot path holds a file of size
\* zero writes the archive of the staging tree into that file and returns
\* no error, as it does when there is no file at the snapshot path.
EmptyOutPathAccepted ==
    [][(pc = "pack" /\ archive.state = "empty") =>
          /\ pc' = "done" /\ err' = ""
          /\ archive' = createSnapshot(fs, buildPath, NoArchive).archive]_vars

\* the entry that stands for the node at position k of the staging tree
EntryFor(k) ==
    Entry(CASE Staged[k].kind = "dir" -> "dir"
            [] Staged[k].kind = "file" -> "reg"
            [] Staged[k].kind = "link" -> "symlink",
          JoinElems(k),
          IF Staged[k].kind = "file" THEN Staged[k].data ELSE "",
          IF Staged[k].kind = "link" THEN Staged[k].data ELSE "")

\* C20: the archive written by the packing holds exactly one entry for
\* every directory, regular file and symlink below the staging root, named
\* by its path relative to the staging root, with the content of a file and
\* the target of a link; it holds no entry for the staging root and no
\* other entry.
ArchiveEntries ==
    [][(pc = "pack" /\ pc' = "done" /\ archive'.state = "data") =>
          /\ \A k \in DOMAIN Staged \ {<<>>} :
                Cardinality({i \in DOMAIN archive'.entries : archive'.entries[i] = EntryFor(k)}) = 1
          /\ \A i \in DOMAIN archive'.entries :
                \E k \in DOMAIN Staged \ {<<>>} : archive'.entries[i] = EntryFor(k)]_vars

----------------------------------------------------------------------------
(* Properties of the order of the archive *)

\* the name of the directory an entry name lies in, "" for the staging root
ParentName(n) == IF LastSlash(n) = 0 THEN "" ELSE SubSeq(n, 1, LastSlash(n) - 1)

\* the entry at position i lies in the staging root or in a directory that
\* has its entry before position i
ParentBefore(es, i) ==
    \/ ParentName(es[i].name) = ""
    \/ \E j \in 1..(i - 1) : es[j].typeflag = "dir" /\ es[j].name = ParentName(es[i].name)

\* C21: in every archive written by capture, each entry's parent directory
\* is the staging root or has a directory entry earlier in the archive, and
\* no entry name occurs twice; so the expansion of such an archive into an
\* empty destination never fails on a missing parent directory or on a
\* symlink that exists already.
ParentsFirst ==
    /\ [][(pc = "pack" /\ pc' = "done") =>
             /\ \A i \in DOMAIN archive'.entries : ParentBefore(archive'.entries, i)
             /\ \A i, j \in DOMAIN archive'.entries :
                   i # j => archive'.entries[i].name # archive'.entries[j].name]_vars
    /\ [](pc = "done" /\ xpc = "done" /\ opened => xerr \notin {"ENOENT", "EEXIST"})

----------------------------------------------------------------------------
(* Properties of the directories of the staging tree *)

\* s is a prefix of t, t itself included
IsPrefixOf(s, t) == Len(s) <= Len(t) /\ SubSeq(t, 1, Len(s)) = s

\* the directories that are created for their own sake, by position below
\* the root: those of createPaths and the driver-name directories
FixedDirs ==
    {SplitPath(createPaths[i]) : i \in DOMAIN createPaths}
    \cup {SplitPath(m) : m \in {d \in Range(Glob(fs, "/sys/bus/pci/drivers/*")) :
                                   NodeAt(fs, d).kind = "dir"}}

\* a regular file or a symlink of the staging tree lies below position k
HoldsContent(k) ==
    \E q \in DOMAIN Staged :
        /\ Len(q) > Len(k) /\ IsPrefixOf(k, q)
        /\ Staged[q].kind \in {"file", "link"}

\* the next match to copy is a directory that is not one of the fixed ones
OtherDirectoryMatch ==
    /\ copying /\ matches # <<>>
    /\ NodeAt(fs, Head(matches)).kind = "dir"
    /\ SplitPath(Head(matches)) \notin FixedDirs

\* C22: in the completed staging tree every directory is an ancestor of a
\* materialized regular file or symlink, or one of the fixed directories
\* created for their own sake (the driver-name directories and /sys/block,
\* with the directories leading to them), which may stay empty; a FileSpec
\* match that is a directory of another kind is not itself created in the
\* staging tree.
StagingDirectoryRule ==
    /\ [](pc \in {"pack", "done"} =>
            \A k \in DOMAIN Staged \ {<<>>} :
                Staged[k].kind = "dir" =>
                    \/ HoldsContent(k)
                    \/ \E d \in FixedDirs : IsPrefixOf(k, d))
    /\ [][OtherDirectoryMatch =>
             NodeAt(fs', Join(buildPath, Head(matches))) = NodeAt(fs, Join(buildPath, Head(matches)))]_vars

----------------------------------------------------------------------------
(* Properties of repeated copies *)

\* copyFile applied to path a second time gives what the first call gave,
\* when that call returned no error
Idempotent(path) ==
    With(copyFile(fs, buildPath, path), LAMBDA once :
        once.err = "" => copyFile(once.fs, buildPath, path) = once)

\* the FileSpecs of pciGlobs that copyFileGlobs has gone through already
DoneSpecs == SubSeq(fileSpecs, 1, Len(fileSpecs) - Len(globs) - 1)

\* the match to copy next has been copied before in this call: pciGlobs
\* names the devices behind a bridge twice
SecondCopy ==
    /\ pc = "pci" /\ copying /\ matches # <<>>
    /\ Len(fileSpecs) > Len(globs)
    /\ Head(matches) \in Range(DoneSpecs)

\* C23: materializing a concrete path that has been materialized already
\* returns no error and leaves the staging tree as it is, for directories,
\* symlinks and regular files: each repeated copy of a capture changes
\* nothing, and copyFile applied twice gives what it gives applied once.
CopyFileIdempotent ==
    /\ [][SecondCopy => /\ fs' = fs /\ err' = "" /\ pc' = pc
                        /\ matches' = Tail(matches) /\ skipped' = skipped]_vars
    /\ [](copying => \A i \in DOMAIN matches : Idempotent(matches[i]))

\* a capture has copied a regular file and a link twice each, a driver
\* directory has been staged, and no step has failed
CopyFileIdempotentWitness ==
    /\ pc = "pack" /\ err = ""
    /\ \E a, b \in Range(fileSpecs) :
          /\ Count(fileSpecs, a) >= 2 /\ NodeAt(fs, a).kind = "file"
          /\ Count(fileSpecs, b) >= 2 /\ NodeAt(fs, b).kind = "link"
    /\ \E d \in resolved : NodeAt(fs, d).kind = "dir" /\ Contains(d, "drivers")

----------------------------------------------------------------------------
(* Properties of one scan of a bus directory *)

\* a step of the walk that scans the bus root at the head of the queue
ScanStep == pciPc = "walk" /\ scanned' # scanned

\* the FileSpecs the scan step has added
Emitted == SubSeq(fileSpecs', Len(fileSpecs) + 1, Len(fileSpecs'))

\* the entries of the directory root with the name of a PCI address that
\* resolve, in the order of the listing
Devices(root) ==
    SelectSeq(ReadDir(fs, root).names,
              LAMBDA n : FromString(n).ok /\ findPCIEntryFromPath(fs, root, n).err = "")

\* what one device entry has to give: the entry itself, then the nine
\* attributes under the resolved device directory
Block(root, n) ==
    <<Join(root, n)>>
    \o [a \in DOMAIN perDevEntries |->
           Join(findPCIEntryFromPath(fs, root, n).path, perDevEntries[a])]

BlockLen == 1 + Len(perDevEntries)

\* C24: for each entry of a scanned bus directory whose name parses as a PCI
\* address and that resolves, the scan emits exactly one FileSpec for the
\* entry itself and exactly one for each of the nine attributes class,
\* device, driver, irq, local_cpulist, modalias, numa_node, revision and
\* vendor under the resolved device directory; entries with another name
\* emit nothing.
PerDeviceEmission ==
    [][ScanStep =>
          /\ Len(perDevEntries) = 9
          /\ Len(Emitted) = BlockLen * Len(Devices(pciRoots[1]))
          /\ \A j \in DOMAIN Devices(pciRoots[1]) :
                SubSeq(Emitted, BlockLen * (j - 1) + 1, BlockLen * j)
                    = Block(pciRoots[1], Devices(pciRoots[1])[j])
          /\ \A n \in Range(ReadDir(fs, pciRoots[1]).names) :
                ~FromString(n).ok => Join(pciRoots[1], n) \notin Range(Emitted)]_vars

\* the walk has scanned, after the flat directory, a device directory that
\* holds an address-named entry next to entries of other names, and has
\* returned the FileSpecs of two devices
PerDeviceEmissionWitness ==
    /\ pciPc = "done" /\ Len(scanned) >= 2
    /\ Len(fileSpecs) >= 1 + 2 * BlockLen
    /\ \E n, o \in Range(ReadDir(fs, scanned[2]).names) :
          /\ FromString(n).ok /\ Join(scanned[2], n) \in Range(fileSpecs)
          /\ ~FromString(o).ok /\ Join(scanned[2], o) \notin EmittedEntries

----------------------------------------------------------------------------
(* Properties of the bridge test *)

\* the bus roots the scan step has enqueued
Enqueued == SubSeq(pciRoots', Len(pciRoots), Len(pciRoots'))

\* the device directory an entry of root resolves to
DeviceDir(root, n) == findPCIEntryFromPath(fs, root, n).path

\* the directory d can be listed and holds an immediate subdirectory with
\* the name of a PCI address
HoldsAddressDir(d) ==
    With(Stat(fs, d), LAMBDA st :
        /\ st.err = "" /\ fs[st.key].kind = "dir" /\ fs[st.key].rd = ""
        /\ \E n \in ChildNames(fs, st.key) :
              FromString(n).ok /\ fs[Append(st.key, n)].kind = "dir")

\* the devices of root that are bridges, in the order of the listing
Bridges(root) ==
    SelectSeq(Devices(root), LAMBDA n : HoldsAddressDir(DeviceDir(root, n)))

\* C25: a discovered device directory is enqueued as a new bus root exactly
\* when it holds at least one immediate subdirectory whose name parses as a
\* PCI address; a device directory whose address-named children are no
\* directories, or that has no address-named child, is never enqueued.
BridgeDetection ==
    [][ScanStep =>
          Enqueued = [j \in DOMAIN Bridges(pciRoots[1]) |->
                         DeviceDir(pciRoots[1], Bridges(pciRoots[1])[j])]]_vars

\* the walk has returned after the scan of a bridge, and has left out a
\* device directory that holds no address-named subdirectory
BridgeDetectionWitness ==
    /\ pciPc = "done" /\ Len(scanned) >= 2
    /\ HoldsAddressDir(scanned[2])
    /\ \E k \in DeviceDirs :
          /\ ("/" \o JoinElems(k)) \notin Range(scanned)
          /\ ~HoldsAddressDir("/" \o JoinElems(k))

----------------------------------------------------------------------------
(* Properties of the walk on failing system calls *)

\* the directory root cannot be listed
CannotList(root) ==
    With(Stat(fs, root), LAMBDA st :
        st.err # "" \/ fs[st.key].kind # "dir" \/ fs[st.key].rd # "")

\* the entry n of root is a link that cannot be read
CannotResolve(root, n) ==
    With(Lstat(fs, Join(root, n)), LAMBDA st :
        st.err # "" \/ (fs[st.key].kind = "link" /\ fs[st.key].rd # ""))

\* C26: a failure to list a bus directory, or to stat or resolve one of its
\* entries, never aborts the walk and is never returned as an error: the
\* failing directory or entry contributes no FileSpecs and no new bus
\* roots, while every other queued bus root and every other entry is still
\* processed.
WalkFailuresLocal ==
    /\ [][ScanStep =>
             /\ pciPc' = "walk" /\ err' = err
             /\ pciRoots' = Tail(pciRoots) \o Enqueued
             /\ CannotList(pciRoots[1]) => Emitted = <<>> /\ Enqueued = <<>>
             /\ \A n \in Range(ReadDir(fs, pciRoots[1]).names) :
                   IF CannotResolve(pciRoots[1], n)
                   THEN /\ \A i \in DOMAIN Emitted :
                              ~HasPrefix(Emitted[i], Join(pciRoots[1], n))
                        /\ Len(Emitted) = BlockLen * Len(Devices(pciRoots[1]))
                        /\ Len(Enqueued) = Len(Bridges(pciRoots[1]))
                   ELSE FromString(n).ok =>
                           /\ Count(Emitted, Join(pciRoots[1], n)) = 1
                           /\ HoldsAddressDir(DeviceDir(pciRoots[1], n))
                                 => DeviceDir(pciRoots[1], n) \in Range(Enqueued)]_vars
    /\ [](pciPc = "done" => pciRoots = <<>> /\ err = "")

\* the walk has returned on a tree where the link of device 1 could not be
\* read and the other devices were emitted
WalkFailuresLocalWitness ==
    /\ pciPc = "done"
    /\ CannotResolve(sysBusPCIDir, PciAddr(1))
    /\ Join(sysBusPCIDir, PciAddr(1)) \notin Range(fileSpecs)
    /\ Join(sysBusPCIDir, PciAddr(2)) \in Range(fileSpecs)
    /\ Join(sysBusPCIDir, PciAddr(3)) \in Range(fileSpecs)

----------------------------------------------------------------------------
(* Properties of the order of directory listings *)

\* the result of copyFile on the file system enumerating in the order o
CopyIn(o, path) ==
    With(copyFile(Reorder(fs, o), buildPath, path), LAMBDA r :
        [r EXCEPT !.fs = Reorder(r.fs, Enumeration(fs))])

\* C27: for a fixed file system content, the FileSpecs returned by the PCI
\* bus walk and by the device-class cloner, and the staging tree made from
\* them, are the same for every order in which directory listings return
\* their entries: each scan of a bus root, each call of the cloner, each
\* expansion of a FileSpec and each copy gives the same on a file system
\* that enumerates in another order.
OrderIndependence ==
    \A o \in Orders :
        /\ (pciPc = "walk" /\ pciRoots # <<>>) =>
              scanPCIDeviceRoot(Reorder(fs, o), pciRoots[1]) = scanPCIDeviceRoot(fs, pciRoots[1])
        /\ (pc = "net" /\ ~copying) => netGlobs(Reorder(fs, o)) = netGlobs(fs)
        /\ (pc = "gpu" /\ ~copying) => gpuGlobs(Reorder(fs, o)) = gpuGlobs(fs)
        /\ (copying /\ matches = <<>> /\ globs # <<>>) =>
              Glob(Reorder(fs, o), Head(globs)) = Glob(fs, Head(globs))
        /\ (copying /\ matches # <<>>) =>
              CopyIn(o, Head(matches)) = copyFile(fs, buildPath, Head(matches))

\* a capture has staged, without error, two PCI devices, a network
\* interface and a graphics card from directories whose entries the file
\* system may hand out in more than one order
OrderIndependenceWitness ==
    /\ pc = "pack" /\ err = ""
    /\ \E o \in Orders :
          /\ RawList(Reorder(fs, o), SplitPath(sysBusPCIDir)) # RawList(fs, SplitPath(sysBusPCIDir))
          /\ RawList(Reorder(fs, o), <<"sys", "class", "net">>) # RawList(fs, <<"sys", "class", "net">>)
    /\ Join(sysBusPCIDir, PciAddr(1)) \in resolved
    /\ Join(sysBusPCIDir, PciAddr(2)) \in resolved
    /\ "sys/class/net/eth0" \in resolved
    /\ "sys/class/drm/card0" \in resolved

----------------------------------------------------------------------------
(* Expand calls that run side by side *)

\* untar over the whole stream: it stops at the first entry that fails
RECURSIVE untar(_, _, _)
untar(f, to, entries) ==
    IF entries = <<>> THEN [fs |-> f, err |-> ""]
    ELSE With(untarEntry(f, to, Head(entries)), LAMBDA r :
             IF r.err # "" THEN r ELSE untar(r.fs, to, Tail(entries)))

\* Expand as one call that nothing else runs beside: the file system it
\* leaves and the error it returns
Expand(f, entries, to) ==
    IF ~exists(f, to)
    THEN With(MkdirAll(f, to), LAMBDA mk :
             IF mk.err # "" THEN mk ELSE untar(mk.fs, to, entries))
    ELSE IF ~isEmptyDir(f, to)
    THEN [fs |-> f, err |-> "target directory is not empty"]
    ELSE untar(f, to, entries)

\* the tree of the file system f at and below the path p
SubTree(f, p) ==
    [k \in {q \in DOMAIN f : /\ Len(q) >= Len(SplitPath(p))
                             /\ SubSeq(q, 1, Len(SplitPath(p))) = SplitPath(p)} |-> f[k]]

\* the call i moves on to c
Moves(i, c) == calls' = [calls EXCEPT ![i] = c]

\* the call i returns the error e
Returns(i, e) == Moves(i, [calls[i] EXCEPT !.pc = "done", !.err = e, !.rest = <<>>, !.mk = <<>>])

\* the call i has its destination and reads the archive
Untars(i) == Moves(i, [calls[i] EXCEPT !.pc = "untar", !.rest = calls[i].entries, !.mk = <<>>])

\* Expand, line 160: exists(toPath), one os.Stat
CallExists(i) ==
    /\ calls[i].pc = "ready"
    /\ IF ~exists(fs, calls[i].toPath)
       THEN Moves(i, [calls[i] EXCEPT !.pc = "stat", !.mk = <<calls[i].toPath>>])
       ELSE Moves(i, [calls[i] EXCEPT !.pc = "empty"])
    /\ UNCHANGED <<envVars, xpc, toPath, xrest, xerr, opened, walkVars, cloneVars, capVars, pathVars, cmdVars>>

\* Expand, line 161, os.MkdirAll: the os.Stat of the directory at the head
\* of mk; a missing directory sends MkdirAll to the parent first
CallMkdirAllStat(i) ==
    /\ calls[i].pc = "stat"
    /\ \E st \in {Stat(fs, Head(calls[i].mk))} :
          IF st.err = ""
          THEN IF fs[st.key].kind # "dir" THEN Returns(i, "ENOTDIR")
               ELSE IF Tail(calls[i].mk) = <<>> THEN Untars(i)
               ELSE Moves(i, [calls[i] EXCEPT !.pc = "mkdir", !.mk = Tail(@)])
          ELSE IF Dir(Head(calls[i].mk)) = Head(calls[i].mk)
          THEN Moves(i, [calls[i] EXCEPT !.pc = "mkdir"])
          ELSE Moves(i, [calls[i] EXCEPT !.mk = <<Dir(Head(@))>> \o @])
    /\ UNCHANGED <<envVars, xpc, toPath, xrest, xerr, opened, walkVars, cloneVars, capVars, pathVars, cmdVars>>

\* Expand, line 161, os.MkdirAll: the os.Mkdir of the directory at the head
\* of mk, no error when the directory is there by now
CallMkdir(i) ==
    /\ calls[i].pc = "mkdir"
    /\ \E r \in {MkdirLast(fs, Head(calls[i].mk))} :
          /\ fs' = r.fs
          /\ IF r.err # "" THEN Returns(i, r.err)
             ELSE IF Tail(calls[i].mk) = <<>> THEN Untars(i)
             ELSE Moves(i, [calls[i] EXCEPT !.mk = Tail(@)])
    /\ UNCHANGED <<cwd, xpc, toPath, xrest, xerr, opened, walkVars, cloneVars, capVars, pathVars, cmdVars>>

\* Expand, line 164: isEmptyDir(toPath), one listing
CallIsEmptyDir(i) ==
    /\ calls[i].pc = "empty"
    /\ IF ~isEmptyDir(fs, calls[i].toPath)
       THEN Returns(i, "target directory is not empty")
       ELSE Untars(i)
    /\ UNCHANGED <<envVars, xpc, toPath, xrest, xerr, opened, walkVars, cloneVars, capVars, pathVars, cmdVars>>

\* untar, lines 186-231: the call i reads and unpacks one entry
CallUntarEntry(i) ==
    /\ calls[i].pc = "untar"
    /\ calls[i].rest # <<>>
    /\ \E r \in {untarEntry(fs, calls[i].toPath, Head(calls[i].rest))} :
          /\ fs' = r.fs
          /\ IF r.err # "" THEN Returns(i, r.err)
             ELSE Moves(i, [calls[i] EXCEPT !.rest = Tail(@)])
    /\ UNCHANGED <<cwd, xpc, toPath, xrest, xerr, opened, walkVars, cloneVars, capVars, pathVars, cmdVars>>

\* untar, lines 187-190: the call i is at the end of its stream
CallUntarEOF(i) ==
    /\ calls[i].pc = "untar"
    /\ calls[i].rest = <<>>
    /\ Moves(i, [calls[i] EXCEPT !.pc = "done"])
    /\ UNCHANGED <<envVars, xpc, toPath, xrest, xerr, opened, walkVars, cloneVars, capVars, pathVars, cmdVars>>

\* the destinations of two calls: side by side in /tmp or in a directory
\* that is not there yet, each missing or an empty directory
PairDests ==
    {[to |-> <<"/tmp/x", "/tmp/y">>, nodes |-> n] :
        n \in {<<"tmp">> :> DirNode,
               <<"tmp", "y">> :> DirNode,
               (<<"tmp", "x">> :> DirNode) @@ (<<"tmp", "y">> :> DirNode)}}
    \cup {[to |-> <<"/tmp/p/x", "/tmp/p/y">>, nodes |-> <<"tmp">> :> DirNode]}

\* the entries of their archives: what a capture writes, and a name that
\* leads into the directory next to the destination
PairEntries ==
    {Entry("dir", "d", "", ""),
     Entry("reg", "d/f", "abc", ""),
     Entry("symlink", "d/l", "", "f"),
     Entry("reg", "../y/evil", "x", "")}

\* how many entries the archive of the first call holds
MaxPairEntries == 2

PairArchives == UNION {[1..n -> PairEntries] : n \in 0..MaxPairEntries}

\* the archive of the second call
SecondArchives == {<<>>, <<Entry("dir", "d", "", ""), Entry("reg", "d/f", "abc", "")>>}

\* a call at its start; alone is what the call gives when nothing runs
\* beside it
NewCall(f, to, entries) ==
    [pc |-> "ready", toPath |-> to, entries |-> entries, rest |-> <<>>, err |-> "",
     mk |-> <<>>,
     alone |-> With(Expand(f, entries, to), LAMBDA r :
                   [err |-> r.err, tree |-> SubTree(r.fs, to)])]

InitPair ==
    /\ cwd = "/"
    /\ \E d \in PairDests : \E a \in PairArchives : \E b \in SecondArchives :
          /\ fs = MkFs(d.nodes)
          /\ calls = <<NewCall(fs, d.to[1], a), NewCall(fs, d.to[2], b)>>
    /\ xpc = "off" /\ toPath = "" /\ xrest = <<>> /\ xerr = "" /\ opened = FALSE
    /\ WalkOff /\ CloneOff /\ CaptureOff /\ PathsOff /\ ShowOff

NextPair ==
    \E i \in DOMAIN calls :
        \/ CallExists(i) \/ CallMkdirAllStat(i) \/ CallMkdir(i)
        \/ CallIsEmptyDir(i) \/ CallUntarEntry(i) \/ CallUntarEOF(i)

SpecPair == InitPair /\ [][NextPair]_vars

\* every call has returned
AllReturned == \A i \in DOMAIN calls : calls[i].pc = "done"

\* the call i has returned what it returns alone and its destination holds
\* what it holds then
AsAlone(i) ==
    /\ calls[i].err = calls[i].alone.err
    /\ SubTree(fs, calls[i].toPath) = calls[i].alone.tree

\* C28: when two Expand calls with disjoint archives and destinations run
\* with their file system steps interleaved in any order, each call returns
\* the same result and leaves the same tree at its destination as when it
\* runs alone.
ConcurrentExpandSafe ==
    (calls # <<>> /\ AllReturned) => \A i \in DOMAIN calls : AsAlone(i)

----------------------------------------------------------------------------
(* Properties of the context modifiers *)

\* the Options a caller reads through the context c on the heap h
Observed(h, c) == Deref(OptionsFromContext(environ, h, c))

\* the option the modifier m sets, as the Options o show it
ShowsOption(o, m) ==
    CASE m.op = "root" -> o.RootMountpoint = m.root
      [] m.op = "overrides" -> o.PathOverrides = [nil |-> FALSE, map |-> m.map]
      [] m.op = "warnings" -> o.DisableWarnings
      [] m.op = "tools" -> o.DisableExternalTools

\* C29: a context modifier (WithRootMountpoint, WithPathOverrides,
\* WithDisableWarnings, WithDisableExternalTools) applied to a context that
\* carries Options already returns a context with the changed option and
\* leaves the Options read through the original context, and the paths
\* built from it, as they were.
ModifiersDoNotAlias ==
    [][(mods' # mods /\ ctx.has) =>
          /\ ShowsOption(Observed(heap', ctx'), mods'[Len(mods')])
          /\ Observed(heap', ctx) = Observed(heap, ctx)
          /\ PathNew(environ, heap', ctx) = PathNew(environ, heap, ctx)]_vars

----------------------------------------------------------------------------
(* The ghw command: the root command and the provider subcommands *)

\* os.RemoveAll: the node at path and everything below it; no error when
\* there is nothing at path
RemoveAll(f, path) ==
    With(Lstat(f, path), LAMBDA ls :
        IF ls.err # "" \/ ls.key = <<>> THEN f
        ELSE [k \in {q \in DOMAIN f : ~(/\ Len(q) >= Len(ls.key)
                                        /\ SubSeq(q, 1, Len(ls.key)) = ls.key)} |-> f[k]])

\* the names os.MkdirTemp draws for the pattern "ghw-snapshot"
TempNames == {"/tmp/ghw-snapshot1", "/tmp/ghw-snapshot2"}

\* os.MkdirTemp("", "ghw-snapshot"): the outcomes, one per name that is
\* free; the error of os.Mkdir when no name can be made
MkdirTemp(f) ==
    With({n \in TempNames : Mkdir(f, n).err = ""}, LAMBDA free :
        IF free # {}
        THEN {[fs |-> Mkdir(f, n).fs, err |-> "", name |-> n] : n \in free}
        ELSE {[fs |-> f, err |-> e, name |-> ""] : e \in {Mkdir(f, n).err : n \in TempNames}})

\* snapshot.Expand(snapshotPath, to) on the file a at the snapshot path:
\* the destination is checked or created, then the file opened and unpacked
ExpandFile(f, a, to) ==
    IF a.state = "data" THEN Expand(f, a.entries, to)
    ELSE With(Expand(f, <<>>, to), LAMBDA r :
             IF r.err # "" THEN r
             ELSE [fs |-> r.fs, err |-> IF a.state = "absent" THEN "ENOENT" ELSE "EOF"])

\* the opening of every show function: with a snapshot path and nothing
\* expanded yet, a temporary directory is made, its removal deferred and
\* the snapshot expanded into it; the outcomes, each with the file system,
\* the variable snapshotExpandPath, the deferred removal and the error
ExpandSnapshot(f, sp, sep, a) ==
    {IF t.err # ""
     THEN [fs |-> f, sep |-> t.name, deferred |-> "", made |-> <<>>, err |-> t.err]
     ELSE With(ExpandFile(t.fs, a, t.name), LAMBDA x :
              [fs |-> x.fs, sep |-> t.name, deferred |-> t.name, made |-> <<t.name>>,
               err |-> x.err]) :
        t \in MkdirTemp(f)}

\* the return of a show function: the deferred os.RemoveAll runs
Deferred(f, path) == IF path = "" THEN f ELSE RemoveAll(f, path)

\* the providers, in the order showAll prints them and in the order System
\* loads them
HumanProviders ==
    <<"block", "cpu", "gpu", "memory", "net", "topology", "chassis", "bios",
      "baseboard", "product">>

SystemProviders ==
    <<"memory", "block", "cpu", "topology", "net", "gpu", "chassis", "bios",
      "baseboard", "product", "pci">>

ErrUsable == "Could not determine total usable bytes of memory"

ErrLoad == "error getting info"

\* the errors New of the provider p can return with the Paths ps: the
\* memory provider reads ProcMeminfo; the loaders of the others read files
\* below the same roots and fail or not
LoadErrors(p, f, ps) ==
    IF p = "memory"
    THEN With(ReadFile(f, ps.ProcMeminfo), LAMBDA r :
             {IF r.err # "" THEN r.err ELSE IF r.buf = "" THEN ErrUsable ELSE ""})
    ELSE {"", ErrLoad}

\* context.TODO(): a context that carries no Options
ContextTODO == NoOptions

\* the context a show function hands to its provider
ShowContext(env, h, sep) ==
    IF sep # "" THEN WithRootMountpoint(env, h, ContextTODO, sep)
    ELSE [heap |-> h, ctx |-> ContextTODO]

\* a show function for the provider p, from its first line to its return,
\* on the file system f with sep in snapshotExpandPath and the heap h: the
\* outcomes, each with what it leaves and the call it made to the provider
Show(p, f, sep, h) ==
    IF flags.snapshotPath # "" /\ sep = ""
    THEN UNION {
            IF x.err # ""
            THEN {[fs |-> Deferred(x.fs, x.deferred), sep |-> x.sep, made |-> x.made,
                   heap |-> h, call |-> <<>>, err |-> x.err]}
            ELSE With(ShowContext(environ, h, x.sep), LAMBDA c :
                    {[fs |-> Deferred(x.fs, x.deferred), sep |-> x.sep, made |-> x.made,
                      heap |-> c.heap,
                      call |-> <<[provider |-> p, ctx |-> c.ctx,
                                  paths |-> PathNew(environ, c.heap, c.ctx), err |-> e]>>,
                      err |-> e] :
                        e \in LoadErrors(p, x.fs, PathNew(environ, c.heap, c.ctx))}) :
            x \in ExpandSnapshot(f, flags.snapshotPath, sep, archive)}
    ELSE With(ShowContext(environ, h, sep), LAMBDA c :
            {[fs |-> f, sep |-> sep, made |-> <<>>, heap |-> c.heap,
              call |-> <<[provider |-> p, ctx |-> c.ctx,
                          paths |-> PathNew(environ, c.heap, c.ctx), err |-> e]>>,
              err |-> e] :
                e \in LoadErrors(p, f, PathNew(environ, c.heap, c.ctx))})

\* what a show function leaves in the variables
Shown(r) ==
    /\ snapshotExpandPath' = r.sep
    /\ expanded' = expanded \o r.made
    /\ heap' = r.heap
    /\ invoked' = invoked \o r.call
    /\ IF r.call = <<>> THEN UNCHANGED <<ctx, paths>>
       ELSE ctx' = r.call[1].ctx /\ paths' = r.call[1].paths

\* a provider subcommand, such as "ghw memory": its show function
ShowCommand ==
    /\ showPc = "start" /\ flags.command # "root"
    /\ \E r \in Show(flags.command, fs, snapshotExpandPath, heap) :
          /\ Shown(r)
          /\ fs' = r.fs
          /\ showErr' = r.err
    /\ showPc' = "done"
    /\ UNCHANGED <<cwd, flags, todo, environ, mods, pathPc, walkVars, cloneVars, capVars, expVars>>

\* showAll, lines 69-81: the snapshot is expanded and the output format
\* chosen
ShowAllBegin ==
    /\ showPc = "start" /\ flags.command = "root"
    /\ IF flags.snapshotPath # ""
       THEN \E x \in ExpandSnapshot(fs, flags.snapshotPath, snapshotExpandPath, archive) :
               /\ snapshotExpandPath' = x.sep
               /\ expanded' = expanded \o x.made
               /\ IF x.err # ""
                  THEN /\ fs' = Deferred(x.fs, x.deferred)
                       /\ showErr' = x.err /\ showPc' = "done" /\ todo' = <<>>
                  ELSE /\ fs' = x.fs
                       /\ showPc' = "run" /\ UNCHANGED showErr
                       /\ todo' = IF flags.outputFormat = "human" THEN HumanProviders
                                  ELSE SystemProviders
       ELSE /\ showPc' = "run"
            /\ todo' = IF flags.outputFormat = "human" THEN HumanProviders
                       ELSE SystemProviders
            /\ UNCHANGED <<fs, snapshotExpandPath, expanded, showErr>>
    /\ UNCHANGED <<cwd, flags, invoked, pathVars, walkVars, cloneVars, capVars, expVars>>

\* showAll returns the error e: its deferred os.RemoveAll runs on the
\* directory made at line 71
ShowAllReturns(f, e) ==
    /\ fs' = Deferred(f, IF flags.snapshotPath # "" THEN snapshotExpandPath ELSE "")
    /\ showErr' = e
    /\ showPc' = "done"
    /\ todo' = <<>>

\* showAll, lines 82-112, the human format: the next show function runs;
\* showAll returns when it fails
ShowNext ==
    /\ showPc = "run" /\ flags.outputFormat = "human" /\ todo # <<>>
    /\ \E r \in Show(Head(todo), fs, snapshotExpandPath, heap) :
          /\ Shown(r)
          /\ IF r.err # "" THEN ShowAllReturns(r.fs, r.err)
             ELSE fs' = r.fs /\ todo' = Tail(todo) /\ UNCHANGED <<showPc, showErr>>
    /\ UNCHANGED <<cwd, flags, environ, mods, pathPc, walkVars, cloneVars, capVars, expVars>>

\* showAll, lines 113-125, and System: the next provider is loaded with
\* the context showAll hands to System; System and showAll return when it
\* fails
SystemNext ==
    /\ showPc = "run" /\ flags.outputFormat # "human" /\ todo # <<>>
    /\ \E e \in LoadErrors(Head(todo), fs, PathNew(environ, heap, ContextTODO)) :
          /\ ctx' = ContextTODO
          /\ paths' = PathNew(environ, heap, ContextTODO)
          /\ invoked' = Append(invoked, [provider |-> Head(todo), ctx |-> ContextTODO,
                                         paths |-> PathNew(environ, heap, ContextTODO),
                                         err |-> e])
          /\ IF e # "" THEN ShowAllReturns(fs, e)
             ELSE todo' = Tail(todo) /\ UNCHANGED <<fs, showPc, showErr>>
    /\ UNCHANGED <<cwd, flags, snapshotExpandPath, expanded, environ, heap, mods, pathPc,
                   walkVars, cloneVars, capVars, expVars>>

\* showAll, line 126: everything is printed and showAll returns
ShowAllEnd ==
    /\ showPc = "run" /\ todo = <<>>
    /\ ShowAllReturns(fs, "")
    /\ UNCHANGED <<cwd, flags, snapshotExpandPath, invoked, expanded, pathVars,
                   walkVars, cloneVars, capVars, expVars>>

\* the command lines
Commands == {"root", "memory", "net", "bios"}

OutputFormats == {"human", "json", "yaml"}

SnapshotPaths == {"", "/snap.tgz"}

\* the content of /proc/meminfo on the host and in a snapshot
LiveMeminfo == "MemTotal: live"

SnapMeminfo == "MemTotal: snapshot"

\* the snapshot files: none, an empty file, an archive of nothing, one of
\* the memory information, one that is damaged after its first entry
SnapshotFiles ==
    {NoArchive,
     [state |-> "empty", entries |-> <<>>],
     [state |-> "data", entries |-> <<>>],
     [state |-> "data",
      entries |-> <<Entry("dir", "proc", "", ""), Entry("reg", "proc/meminfo", SnapMeminfo, "")>>],
     [state |-> "data",
      entries |-> <<Entry("dir", "proc", "", ""), Entry("corrupt", "", "", "")>>]}

\* the host: /proc/meminfo, and /tmp missing, empty or holding what an
\* earlier run left at the first temporary name
HostNodes ==
    {(<<"proc", "meminfo">> :> FileNode(LiveMeminfo)) @@ t :
        t \in {<<"proc">> :> DirNode,
               <<"tmp">> :> DirNode,
               <<"tmp", "ghw-snapshot1", "old">> :> FileNode("x")}}

InitShow ==
    /\ cwd = "/"
    /\ \E n \in HostNodes : fs = MkFs(n)
    /\ flags \in [command : Commands, outputFormat : OutputFormats, snapshotPath : SnapshotPaths]
    /\ archive \in SnapshotFiles
    /\ (flags.snapshotPath = "" => archive = NoArchive)
    /\ environ \in {e \in EnvironChoices : e.GHW_ROOT_MOUNTPOINT = "" /\ e.GHW_DISABLE_WARNINGS = ""}
    /\ snapshotExpandPath = "" /\ showPc = "start" /\ todo = <<>>
    /\ invoked = <<>> /\ expanded = <<>> /\ showErr = ""
    /\ ctx = NoOptions /\ heap = <<>> /\ mods = <<>> /\ paths = <<>> /\ pathPc = "off"
    /\ pc = "off" /\ buildPath = "" /\ copying = FALSE /\ globs = <<>> /\ matches = <<>>
    /\ err = "" /\ resolved = {} /\ skipped = {}
    /\ WalkOff /\ CloneOff /\ ExpandOff

NextShow == ShowCommand \/ ShowAllBegin \/ ShowNext \/ SystemNext \/ ShowAllEnd

SpecShow == InitShow /\ [][NextShow]_vars

----------------------------------------------------------------------------
(* Properties of the root command *)

\* the root command runs with a snapshot path
RootWithSnapshot == flags # <<>> /\ flags.command = "root" /\ flags.snapshotPath # ""

\* every path of the Paths ps lies below the directory d
ResolvedBelow(ps, d) == \A k \in DOMAIN ps : IsPrefixOf(d \o "/", ps[k])

\* the call c resolved its paths against the expanded snapshot
AgainstSnapshot(c) == expanded # <<>> /\ ResolvedBelow(c.paths, expanded[1])

\* C30: when the root command runs with a snapshot path, the snapshot is
\* expanded exactly once into a temporary directory, every provider the
\* command then invokes, in each output format, resolves its paths below
\* that directory, and the directory is gone when the command has returned.
SnapshotRootHonoured ==
    RootWithSnapshot =>
        /\ Len(expanded) <= 1
        /\ \A i \in DOMAIN invoked : Len(expanded) = 1 /\ AgainstSnapshot(invoked[i])
        /\ (showPc = "done" /\ expanded # <<>> => ~exists(fs, expanded[1]))

====
